---- MODULE Spec2Model ----
(***************************************************************************)
(* Model of dns-discovery: the UDP packet dispatcher (server/server.go),   *)
(* the record cache (discovery/cache.go) and the wire codec and response   *)
(* builder the dispatcher's tasks run (dns/...).                           *)
(*                                                                         *)
(* Bytes are naturals 0..255, byte slices are sequences, Go offsets are    *)
(* 0-based (At(data, off) reads data[off]).  A Go string is modelled as    *)
(* the sequence of its bytes.  A *T that may be nil is a sequence of       *)
(* length 0 (nil) or 1.                                                    *)
(***************************************************************************)
EXTENDS Integers, Sequences, FiniteSets, TLC

\* ------------------------------------------------------------------------
\* Fixed-width arithmetic
\* ------------------------------------------------------------------------

U16(x) == x % 65536

RECURSIVE BitAnd(_, _)
BitAnd(a, b) ==
    IF a = 0 \/ b = 0 THEN 0
    ELSE (a % 2) * (b % 2) + 2 * BitAnd(a \div 2, b \div 2)

RECURSIVE BitOr(_, _)
BitOr(a, b) ==
    IF a = 0 THEN b
    ELSE IF b = 0 THEN a
    ELSE (IF a % 2 = 1 \/ b % 2 = 1 THEN 1 ELSE 0) + 2 * BitOr(a \div 2, b \div 2)

At(data, off) == data[off + 1]

\* binary.BigEndian.Uint16(data[off:off+2])
Uint16(data, off) == At(data, off) * 256 + At(data, off + 1)

\* The 16-bit values of a list, each low byte first.
RECURSIVE Concat16LE(_)
Concat16LE(vs) ==
    IF vs = << >> THEN << >>
    ELSE << U16(Head(vs)) % 256, U16(Head(vs)) \div 256 >> \o Concat16LE(Tail(vs))

\* binary.Write(&buf, binary.BigEndian, uint16(v))
PutUint16(v) == << (U16(v) \div 256), (U16(v) % 256) >>

\* ------------------------------------------------------------------------
\* time.Duration: an int64 count of nanoseconds, kept as whole seconds plus
\* nanoseconds below one second (300*time.Second is [secs |-> 300, nanos |-> 0],
\* the untyped constant 300 is [secs |-> 0, nanos |-> 300]).
\* ------------------------------------------------------------------------

Seconds(s) == [secs |-> s, nanos |-> 0]

Nanoseconds(n) == [secs |-> 0, nanos |-> n]

\* time.Second = 1e9 ns = 0x3B9ACA00, as two 16-bit halves.
SecondHi == 15258

SecondLo == 51712

\* uint32(d): the low 32 bits of the nanosecond count, as the two 16-bit
\* halves <<hi, lo>> (secs*1e9 + nanos modulo 2^32, computed by halves).
Uint32OfDuration(d) ==
    LET nLo   == d.nanos % 65536
        nHi   == (d.nanos \div 65536) % 65536
        pLo   == (d.secs % 65536) * SecondLo
        lo    == (pLo % 65536) + nLo
        carry == (pLo \div 65536) + (lo \div 65536)
        hi    == ((d.secs % 65536) * SecondHi + carry + nHi) % 65536
    IN  << hi, lo % 65536 >>

\* ------------------------------------------------------------------------
\* discovery.Cache (pure part): the map and its key
\* ------------------------------------------------------------------------

RECURSIVE DecimalDigits(_)
DecimalDigits(n) ==
    IF n < 10 THEN << 48 + n >>
    ELSE Append(DecimalDigits(n \div 10), 48 + (n % 10))

\* Variant: the key leaves out the domain.
formatKeyTypeOnly(domain, qType) == << 95, 95 >> \o DecimalDigits(qType) \o << 95, 95, 46 >>

\* Variant: the key leaves out the type.
formatKeyNoType(domain, qType) == << 95, 95, 95, 95, 46 >> \o domain

\* fmt.Sprintf("__%d__.%s", qType, domain)
formatKey(domain, qType) ==
    << 95, 95 >> \o DecimalDigits(qType) \o << 95, 95, 46 >> \o domain

Record(value, ttl) == [Value |-> value, TTL |-> ttl]

\* The body of Cache.Get on the map m: nil or a pointer to a copy of the record.
MapGet(m, domain, qType) ==
    LET key == formatKey(domain, qType)
    IN  IF key \in DOMAIN m THEN << m[key] >> ELSE << >>

\* The body of Cache.Set on the map m.
MapSet(m, domain, qType, value, ttl) ==
    LET key == formatKey(domain, qType)
    IN  [k \in (DOMAIN m) \cup {key} |->
            IF k = key THEN Record(value, ttl) ELSE m[k]]

\* Variant: Update merges the new records into the old map.
MapUpdateMerge(m, newRecords) ==
    [k \in (DOMAIN m) \cup (DOMAIN newRecords) |->
        IF k \in DOMAIN newRecords THEN newRecords[k] ELSE m[k]]

\* The body of Cache.Update on the map m.
MapUpdate(m, newRecords) == newRecords

\* ------------------------------------------------------------------------
\* Wire codec: header and question decoding
\* ------------------------------------------------------------------------

HeaderLength == 12

NoHeader ==
    [TransactionID |-> 0, Flags |-> 0, QDCount |-> 0,
     ANCount |-> 0, NSCount |-> 0, ARCount |-> 0]

\* parseDNSHeader of the dns package: the six fields, no validation.
parseDNSHeader(bytes) ==
    IF Len(bytes) < 12 THEN [err |-> "invalid DNS packet, too short", header |-> NoHeader]
    ELSE [err    |-> "",
          header |-> [TransactionID |-> Uint16(bytes, 0),
                      Flags         |-> Uint16(bytes, 2),
                      QDCount       |-> Uint16(bytes, 4),
                      ANCount       |-> Uint16(bytes, 6),
                      NSCount       |-> Uint16(bytes, 8),
                      ARCount       |-> Uint16(bytes, 10)]]

\* Variant: the question limit is tested with > 10, as its message reads.
ParseHeaderUpToTen(data) ==
    IF Len(data) < 12 THEN [err |-> "too short", header |-> NoHeader]
    ELSE IF Uint16(data, 4) = 0 THEN [err |-> "no questions", header |-> NoHeader]
    ELSE IF Uint16(data, 4) > 10 THEN [err |-> "too many questions", header |-> NoHeader]
    ELSE IF BitAnd(Uint16(data, 2) \div 2048, 15) > 2
    THEN [err |-> "unsupported opcode", header |-> NoHeader]
    ELSE parseDNSHeader(data)

ParseHeader(data) ==
    IF Len(data) < 12 THEN [err |-> "too short", header |-> NoHeader]
    ELSE
        LET header == [TransactionID |-> Uint16(data, 0),
                       Flags         |-> Uint16(data, 2),
                       QDCount       |-> Uint16(data, 4),
                       ANCount       |-> Uint16(data, 6),
                       NSCount       |-> Uint16(data, 8),
                       ARCount       |-> Uint16(data, 10)]
            opcode == BitAnd(header.Flags \div 2048, 15)
        IN  IF header.QDCount = 0 THEN [err |-> "no questions", header |-> NoHeader]
            ELSE IF header.QDCount >= 10 THEN [err |-> "too many questions", header |-> NoHeader]
            ELSE IF opcode > 2 THEN [err |-> "unsupported opcode", header |-> NoHeader]
            ELSE [err |-> "", header |-> header]

\* Variant: QTYPE 255 (ANY) is accepted too.
validQTypesWithAny == {1, 2, 5, 6, 15, 16, 28, 255}

validQTypes == {1, 2, 5, 6, 15, 16, 28}

validQClasses == {1, 3, 4}

NameErr(msg) == [err |-> msg, name |-> << >>, next |-> 0]

\* The loop of decodeDomainName, one iteration per call.
RECURSIVE decodeLoop(_, _, _, _, _, _)
decodeLoop(data, offset, domain, visited, jumped, returnOffset) ==
    IF offset >= U16(Len(data)) THEN NameErr("offset out of range")
    ELSE IF offset \in visited THEN NameErr("detected pointer loop")
    ELSE
        LET length == At(data, offset)
            seen   == visited \cup {offset}
        IN  IF length = 0
            THEN [err  |-> "",
                  name |-> domain,
                  next |-> IF jumped THEN returnOffset ELSE U16(offset + 1)]
            ELSE IF BitAnd(length, 192) = 192
            THEN
                IF U16(offset + 1) >= U16(Len(data)) THEN NameErr("invalid pointer")
                ELSE
                    LET pointer == BitAnd(Uint16(data, offset), 16383)
                    IN  IF pointer >= U16(Len(data)) THEN NameErr("pointer out of range")
                        ELSE decodeLoop(data, pointer, domain, seen, TRUE,
                                        IF jumped THEN returnOffset ELSE U16(offset + 2))
            ELSE
                LET o1 == U16(offset + 1)
                IN  IF U16(o1 + length) > U16(Len(data)) THEN NameErr("invalid label length")
                    ELSE
                        LET o2 == U16(o1 + length)
                            d2 == domain \o SubSeq(data, o1 + 1, o1 + length)
                            d3 == IF /\ o2 < U16(Len(data))
                                     /\ At(data, o2) # 0
                                     /\ BitAnd(At(data, o2), 192) # 192
                                  THEN Append(d2, 46)
                                  ELSE d2
                        IN  decodeLoop(data, o2, d3, seen, jumped, returnOffset)

decodeDomainName(data, offset) ==
    IF offset >= U16(Len(data)) THEN NameErr("offset out of range")
    ELSE IF At(data, offset) = 0 THEN [err |-> "", name |-> << >>, next |-> U16(offset + 1)]
    ELSE decodeLoop(data, offset, << >>, {}, FALSE, offset)

NoQuestion == [DomainName |-> << >>, QType |-> 0, QClass |-> 0]

QuestionErr(msg) == [err |-> msg, question |-> NoQuestion, next |-> 0]

\* ParseQuestion after decodeDomainName returned the name and newOffset.
questionFields(data, domainName, offset) ==
    IF U16(offset + 4) > U16(Len(data)) THEN QuestionErr("incomplete question section")
    ELSE IF Uint16(data, offset) \notin validQTypes THEN QuestionErr("invalid QType")
    ELSE IF Uint16(data, offset + 2) \notin validQClasses THEN QuestionErr("invalid QClass")
    ELSE [err      |-> "",
          question |-> [DomainName |-> domainName,
                        QType      |-> Uint16(data, offset),
                        QClass     |-> Uint16(data, offset + 2)],
          next     |-> U16(offset + 4)]

\* ParseQuestion from the return of decodeDomainName, dn, on.
questionAfterName(data, dn) ==
    IF dn.err # "" THEN QuestionErr(dn.err)
    ELSE questionFields(data, dn.name, dn.next)

ParseQuestion(data, offset) == questionAfterName(data, decodeDomainName(data, offset))

QueryErr(msg) == [err |-> msg, header |-> NoHeader, questions |-> << >>]

RECURSIVE parseQuestions(_, _, _, _)

\* Variant: a question that fails to decode ends the loop without an error.
questionParsedOrSkipped(data, remaining, questions, q) ==
    IF q.err # "" THEN [err |-> "", questions |-> questions]
    ELSE parseQuestions(data, q.next, remaining - 1, Append(questions, q.question))

\* One iteration of the question loop from the return of ParseQuestion, q, on.
questionParsed(data, remaining, questions, q) ==
    IF q.err # "" THEN [err |-> q.err, questions |-> << >>]
    ELSE parseQuestions(data, q.next, remaining - 1, Append(questions, q.question))

\* The question loop of ParseQuery: remaining questions are still to decode.
parseQuestions(data, offset, remaining, questions) ==
    IF remaining = 0 THEN [err |-> "", questions |-> questions]
    ELSE questionParsed(data, remaining, questions, ParseQuestion(data, offset))

\* ParseQuery from the return of the question loop, qs, on.
queryAfterQuestions(header, qs) ==
    IF qs.err # "" THEN QueryErr(qs.err)
    ELSE [err |-> "", header |-> header, questions |-> qs.questions]

\* ParseQuery from the return of ParseHeader, h, on.
queryAfterHeader(data, h) ==
    IF h.err # "" THEN QueryErr(h.err)
    ELSE queryAfterQuestions(h.header,
                             parseQuestions(data, HeaderLength, h.header.QDCount, << >>))

ParseQuery(data) ==
    IF Len(data) < HeaderLength THEN QueryErr("packet too short")
    ELSE queryAfterHeader(data, ParseHeader(data))

\* ------------------------------------------------------------------------
\* Response builder
\* ------------------------------------------------------------------------

QRResponse == 32768

RANotAvailable == 128

NXDomain == 3

TXTType == 16

\* The index of the first '.' of domain at or after i, Len(domain) + 1 if
\* there is none.
NextDot(domain, i) ==
    CHOOSE j \in i..(Len(domain) + 1) :
        /\ j = Len(domain) + 1 \/ domain[j] = 46
        /\ \A k \in i..(j - 1) : domain[k] # 46

\* strings.Split(domain, "."): the labels between the '.' bytes, from
\* index i on, dot being the next '.' after i.
RECURSIVE splitFrom(_, _, _)
splitFrom(domain, i, dot) ==
    IF dot > Len(domain) THEN << SubSeq(domain, i, Len(domain)) >>
    ELSE << SubSeq(domain, i, dot - 1) >>
             \o splitFrom(domain, dot + 1, NextDot(domain, dot + 1))

SplitDots(domain) == splitFrom(domain, 1, NextDot(domain, 1))

\* The label loop of encodeDomainName and its closing zero byte; offsets is
\* the offset table the call leaves behind.
RECURSIVE writeLabels(_, _, _, _)
writeLabels(buf, labels, i, offsets) ==
    IF i > Len(labels) THEN [err |-> "", buf |-> Append(buf, 0), offsets |-> offsets]
    ELSE IF Len(labels[i]) > 63
    THEN [err |-> "label exceeds 63 characters", buf |-> buf, offsets |-> offsets]
    ELSE writeLabels(Append(buf, Len(labels[i]) % 256) \o labels[i], labels, i + 1, offsets)

\* encodeDomainName from its lookup in domainOffsets on: a pointer to a name
\* written before, otherwise the offset is recorded and the labels written.
encodeNameOrPointer(buf, domain, domainOffsets) ==
    IF domain \in DOMAIN domainOffsets
    THEN [err     |-> "",
          buf     |-> buf \o PutUint16(BitOr(49152, domainOffsets[domain])),
          offsets |-> domainOffsets]
    ELSE writeLabels(buf, SplitDots(domain), 1, (domain :> Len(buf)) @@ domainOffsets)

\* encodeDomainName(buf, domain, domainOffsets): the buffer and the offset
\* table after the call.  domainOffsets is a function from names to offsets.
\* The root name writes its zero byte and falls through to the lookup.
encodeDomainName(buf, domain, domainOffsets) ==
    encodeNameOrPointer(IF domain = << >> THEN Append(buf, 0) ELSE buf,
                        domain, domainOffsets)

\* Variant: the fields are written low byte first.
HeaderBytesLittleEndian(header) ==
    Concat16LE(<< header.TransactionID, header.Flags, header.QDCount, header.ANCount,
                  header.NSCount, header.ARCount >>)

\* binary.Write(&buf, binary.BigEndian, header)
HeaderBytes(header) ==
    PutUint16(header.TransactionID) \o PutUint16(header.Flags) \o
    PutUint16(header.QDCount) \o PutUint16(header.ANCount) \o
    PutUint16(header.NSCount) \o PutUint16(header.ARCount)

RECURSIVE writeQuestions(_, _, _, _)

\* One iteration of the first loop from the return of encodeDomainName, e, on.
questionEncoded(questions, i, e) ==
    IF e.err # "" THEN [err |-> e.err, buf |-> << >>, offsets |-> e.offsets]
    ELSE writeQuestions(questions, i + 1,
                        e.buf \o PutUint16(questions[i].QType)
                              \o PutUint16(questions[i].QClass),
                        e.offsets)

\* The first loop of BuildDNSResponse: the question sections.
writeQuestions(questions, i, buf, offsets) ==
    IF i > Len(questions) THEN [err |-> "", buf |-> buf, offsets |-> offsets]
    ELSE questionEncoded(questions, i,
                         encodeDomainName(buf, questions[i].DomainName, offsets))

\* Variant: TXT values are written like the others, without a length byte.
RDataRaw(qType, value) == [err |-> "", bytes |-> value]

\* The RDATA of one answer: TXT values get a length byte.
RData(qType, value) ==
    IF qType = TXTType
    THEN IF Len(value) > 255 THEN [err |-> "TXT record too long", bytes |-> << >>]
         ELSE [err |-> "", bytes |-> << Len(value) % 256 >> \o value]
    ELSE [err |-> "", bytes |-> value]

RECURSIVE writeAnswers(_, _, _, _, _, _)

\* One answer from the return of encodeDomainName, e, on; ttl is
\* uint32(record.TTL), rd the RDATA, an the ANCount already incremented.
answerEncoded(questions, i, e, ttl, rd, an, m) ==
    IF e.err # "" THEN [err |-> e.err, buf |-> << >>, an |-> an]
    ELSE IF rd.err # "" THEN [err |-> rd.err, buf |-> << >>, an |-> an]
    ELSE writeAnswers(questions, i + 1,
                      e.buf \o PutUint16(questions[i].QType)
                            \o PutUint16(questions[i].QClass)
                            \o PutUint16(ttl[1]) \o PutUint16(ttl[2])
                            \o PutUint16(Len(rd.bytes)) \o rd.bytes,
                      e.offsets, an, m)

\* Variant: a miss is counted as an answer.
answerForCountingMisses(questions, i, buf, offsets, an, m, record) ==
    IF record = << >> THEN writeAnswers(questions, i + 1, buf, offsets, U16(an + 1), m)
    ELSE answerEncoded(questions, i,
                       encodeDomainName(buf, questions[i].DomainName, offsets),
                       Uint32OfDuration(record[1].TTL),
                       RData(questions[i].QType, record[1].Value),
                       U16(an + 1), m)

\* One iteration of the second loop from the return of cache.Get, record, on.
answerFor(questions, i, buf, offsets, an, m, record) ==
    IF record = << >> THEN writeAnswers(questions, i + 1, buf, offsets, an, m)
    ELSE answerEncoded(questions, i,
                       encodeDomainName(buf, questions[i].DomainName, offsets),
                       Uint32OfDuration(record[1].TTL),
                       RData(questions[i].QType, record[1].Value),
                       U16(an + 1), m)

\* The second loop of BuildDNSResponse: one answer per question found in
\* the cache map m; an is header.ANCount.
writeAnswers(questions, i, buf, offsets, an, m) ==
    IF i > Len(questions) THEN [err |-> "", buf |-> buf, an |-> an]
    ELSE answerFor(questions, i, buf, offsets, an, m,
                   MapGet(m, questions[i].DomainName, questions[i].QType))

\* bufBytes with the 16-bit value v stored at byte offset off.
PatchUint16(bytes, off, v) ==
    [i \in 1..Len(bytes) |->
        IF i = off + 1 THEN U16(v) \div 256
        ELSE IF i = off + 2 THEN U16(v) % 256
        ELSE bytes[i]]

\* header.Flags |= QRResponse | RANotAvailable and the three counts reset.
responseHeader(header) ==
    [header EXCEPT !.Flags   = BitOr(@, BitOr(QRResponse, RANotAvailable)),
                   !.ANCount = 0,
                   !.ARCount = 0,
                   !.NSCount = 0]

\* if header.ANCount == 0 { header.Flags |= NXDomain }
markNXDomain(header) ==
    IF header.ANCount = 0 THEN [header EXCEPT !.Flags = BitOr(@, NXDomain)] ELSE header

\* The end of BuildDNSResponse: flags and ANCount are stored into the bytes.
patchHeader(bytes, header) ==
    [err    |-> "",
     bytes  |-> PatchUint16(PatchUint16(bytes, 2, header.Flags), 6, header.ANCount),
     header |-> header]

\* BuildDNSResponse from the return of the second loop, aw, on.
answersWritten(header, aw) ==
    IF aw.err # ""
    THEN [err |-> aw.err, bytes |-> << >>, header |-> [header EXCEPT !.ANCount = aw.an]]
    ELSE patchHeader(aw.buf, markNXDomain([header EXCEPT !.ANCount = aw.an]))

\* BuildDNSResponse from the return of the first loop, qw, on.
questionsWritten(questions, header, qw, m) ==
    IF qw.err # "" THEN [err |-> qw.err, bytes |-> << >>, header |-> header]
    ELSE answersWritten(header, writeAnswers(questions, 1, qw.buf, qw.offsets, 0, m))

\* BuildDNSResponse once the header has been turned into a response header.
buildBody(questions, header, m) ==
    questionsWritten(questions, header,
                     writeQuestions(questions, 1, HeaderBytes(header), << >>), m)

\* Variant: an empty list of questions is not rejected.
BuildDNSResponseUnchecked(questions, header, m) ==
    buildBody(questions, responseHeader(header), m)

\* BuildDNSResponse(ctx, questions, header, cache) on the cache map m:
\* the bytes returned (<< >> with an error) and the caller's header
\* afterwards (the function writes through the pointer it is given).
BuildDNSResponse(questions, header, m) ==
    IF Len(questions) = 0
    THEN [err |-> "no questions provided", bytes |-> << >>, header |-> header]
    ELSE buildBody(questions, responseHeader(header), m)

\* Resolve from the return of BuildDNSResponse, b, on.
resolveBuilt(b) ==
    IF b.err # "" THEN [err |-> "error building DNS response", resp |-> << >>]
    ELSE [err |-> "", resp |-> b.bytes]

\* Resolve from the return of ParseQuery, pq, on.
resolveParsed(pq, m) ==
    IF pq.err # "" THEN [err |-> "error parsing query", resp |-> << >>]
    ELSE resolveBuilt(BuildDNSResponse(pq.questions, pq.header, m))

\* Resolver.Resolve(ctx, query) on the cache map m.
Resolve(query, m) == resolveParsed(ParseQuery(query), m)

\* ------------------------------------------------------------------------
\* Bounds and input sets
\* ------------------------------------------------------------------------

\* Datagrams that arrive at the socket in one run.
MaxArrivals == 2

\* Datagrams the socket's receive queue holds.
MaxQueue == 2

\* Seconds the cache clock runs.
MaxTime == 2

\* len(buf) in handleIncomingMessages.
BufSize == 1024

\* "a.b"
NameAB == << 97, 46, 98 >>

\* "c"
NameC == << 99 >>

\* Query for a.b, type A: seeded in the cache.
PacketHit == << 18, 52, 1, 0, 0, 1, 0, 0, 0, 0, 0, 0,  1, 97, 1, 98, 0,  0, 1, 0, 1 >>

\* Query for c, type A: well-formed, absent from the cache.
PacketMiss == << 86, 120, 1, 0, 0, 1, 0, 0, 0, 0, 0, 0,  1, 99, 0,  0, 1, 0, 1 >>

\* Two header bytes only.
PacketShort == << 18, 52 >>

\* The datagrams clients send: << origin, bytes >>.
Datagrams ==
    { << "client1", PacketHit >>, << "client2", PacketHit >>,
      << "client2", PacketMiss >>, << "client1", PacketShort >> }

\* The records main stores before the server starts.
SeedCache ==
    MapSet(MapSet(<< >>, NameAB, 1, << 127, 0, 0, 2 >>, Seconds(300)),
           NameAB, 16, << 116 >>, Seconds(300))

\* ------------------------------------------------------------------------
\* State
\* ------------------------------------------------------------------------

VARIABLES
    ctxDone,    \* the context passed to Start has been cancelled
    startPc,    \* position of the goroutine running Server.Start
    readBegun,  \* ctxDone as it was when the current read attempt began
    done,       \* s.done is closed
    connOpen,   \* s.conn is open
    wg,         \* counter of s.wg
    buf,        \* the bytes written so far into the receive buffer buf
    inbox,      \* datagrams queued at the socket, oldest first
    arrivals,   \* datagrams that have arrived so far
    tasks,      \* the processPacket goroutines, in dispatch order
    sent,       \* datagrams written by WriteToUDP, in order
    stopPc,     \* position of the caller of Server.Stop
    log,        \* messages logged so far at warn level or above
    lastRead,   \* outcome of this iteration's ReadFromUDP, "none" before it
    data,       \* c.data of the cache
    now,        \* the clock, in seconds
    storedAt,   \* per (domain, qtype): when a Set last stored it, << >> if not by Set
    ref,        \* per (domain, qtype): what a plain map would hold
    got,        \* the last Cache call and what it returned
    query,      \* the bytes handed to the decoder and to Resolve
    start,      \* the offset ParseQuestion is called with
    dec,        \* ParseQuestion in progress: its position and locals
    resolved,   \* << >> before Resolve is called on query, then << its return >>
    mu,         \* c.mu of the cache
    dataNil,    \* c.data is the nil map
    stopCh,     \* c.stopCh: "open" or "closed"
    stops,      \* calls of Cache.Stop so far
    panic,      \* the panic that ended the process, "" while it runs
    ticker,     \* the updater's ticker: a tick is pending, ticks delivered
    upd,        \* NewCache and the updater goroutine: position, last load
    cl,         \* the callers of the cache: position and call in progress
    calls,      \* calls begun so far
    written,    \* << key, record >> pairs stored whole by Set or Update
    arrays,     \* the byte arrays allocated so far, by address
    held,       \* the []byte values the caller has made
    ret,        \* << >>, or << the record the caller's last Get returned >>
    hdr,        \* << >>, or << the Header last written with binary.Write >>
    wire,       \* the bytes handed to the header parsers
    parsed,     \* << >>, or << what the header parsers returned for wire >>
    built       \* << >>, or << a call of BuildDNSResponse: arguments and outcome >>

serverVars ==
    << ctxDone, startPc, readBegun, done, connOpen, wg, buf, inbox, arrivals,
       tasks, sent, stopPc, log, lastRead >>

cacheVars == << data, now, storedAt, ref, got >>

codecVars == << query, start, dec, resolved >>

updaterVars == << mu, dataNil, stopCh, stops, panic, ticker, upd, cl, calls, written >>

sliceVars == << arrays, held, ret >>

headerVars == << hdr, wire, parsed >>

builderVars == << built >>

extraVars == << codecVars, updaterVars, sliceVars, headerVars, builderVars >>

vars == << serverVars, cacheVars, extraVars >>

\* ------------------------------------------------------------------------
\* ParseQuestion as steps, and Resolve as a call
\* ------------------------------------------------------------------------

\* Longest buffer of the exhaustive part of the decoder's inputs.
MaxBytes == 4

\* The bytes those buffers are made of: the terminator, label lengths 1, 2
\* and 64, and the pointer marker 0xC0.
ByteAlphabet == {0, 1, 2, 64, 192}

ShortBuffers == UNION {[1..n -> ByteAlphabet] : n \in 0..MaxBytes}

\* The first 12 bytes of a query.
QueryHeader(id, flags, qdCount) ==
    PutUint16(id) \o PutUint16(flags) \o PutUint16(qdCount) \o << 0, 0, 0, 0, 0, 0 >>

\* Question sections: a.b A IN (seeded), c A IN (absent), c with QTYPE 9,
\* c cut off after its QTYPE, and a pointer to the name at offset 12.
QuestionHit == << 1, 97, 1, 98, 0,  0, 1, 0, 1 >>

QuestionMiss == << 1, 99, 0,  0, 1, 0, 1 >>

QuestionBadType == << 1, 99, 0,  0, 9, 0, 1 >>

QuestionCut == << 1, 99, 0,  0, 1 >>

QuestionPointer == << 192, 12,  0, 1, 0, 1 >>

\* Flag words of the queries: RD set, none set, RCODE 4, RCODE 8 with RA,
\* a response (QR) with RD, opcode 3.
QueryFlags == {256, 0, 260, 136, 33024, 6400}

\* << QDCount, question bytes >> of the queries.
QueryBodies ==
    { << 1, QuestionMiss >>,
      << 1, QuestionHit >>,
      << 2, QuestionMiss \o QuestionPointer >>,
      << 2, QuestionHit \o QuestionMiss >>,
      << 2, QuestionMiss \o QuestionBadType >>,
      << 2, QuestionMiss \o QuestionCut >>,
      << 2, QuestionMiss >>,
      << 1, QuestionMiss \o QuestionBadType >>,
      << 1, QuestionBadType >>,
      << 0, QuestionMiss >> }

Queries == {QueryHeader(4660, f, b[1]) \o b[2] : f \in QueryFlags, b \in QueryBodies}

\* << bytes, start offset >>: every short buffer at every offset, and every
\* query at the offset of its first question.
\* QTYPE and QCLASS values of the questions decoded: every value up to 30
\* and up to 5, 255, values whose low byte alone is valid, and 65535.
QTypeValues == (0..30) \cup {255, 257, 284, 4096, 65535}

QClassValues == (0..5) \cup {255, 257, 65535}

\* The question "c" with each of them, whole and cut short after the name.
TypedQuestions ==
    { << 1, 99, 0 >> \o PutUint16(t) \o PutUint16(c) : t \in QTypeValues, c \in QClassValues }
    \cup { SubSeq(<< 1, 99, 0, 0, 1, 0, 1 >>, 1, n) : n \in 3..6 }

\* The query of TestParseQuery with two questions: example.com, then "www"
\* and a pointer to offset 12.
PacketTwoQuestions ==
    << 86, 120, 1, 0, 0, 2, 0, 0, 0, 0, 0, 0,
       7, 101, 120, 97, 109, 112, 108, 101, 3, 99, 111, 109, 0,  0, 1, 0, 1,
       3, 119, 119, 119, 192, 12,  0, 1, 0, 1 >>

\* The same with a third question: a pointer to the second name (offset
\* 29), or the name "c" spelled out.
PacketPointerChain ==
    QueryHeader(22136, 256, 3) \o SubSeq(PacketTwoQuestions, 13, Len(PacketTwoQuestions))
        \o << 192, 29,  0, 1, 0, 1 >>

PacketPointerThenPlain ==
    QueryHeader(22136, 256, 3) \o SubSeq(PacketTwoQuestions, 13, Len(PacketTwoQuestions))
        \o << 1, 99, 0,  0, 1, 0, 1 >>

\* A question whose name is a pointer forward, past its QTYPE and QCLASS.
PacketForward == << 192, 6,  0, 1, 0, 1,  1, 99, 0 >>

\* A question "a", pointer to 10; at 10 "b", pointer to 14; at 14 "c".
PacketLabelsAndPointers ==
    << 1, 97, 192, 10,  0, 1, 0, 1,  0, 0,  1, 98, 192, 14,  1, 99, 0 >>

\* A question with a label of length 64, and one of length 191, filled
\* with the byte 'x'.
PacketLabel64 == << 64 >> \o [i \in 1..64 |-> 120] \o << 0,  0, 1, 0, 1 >>

PacketLabel191 == << 191 >> \o [i \in 1..191 |-> 120] \o << 0,  0, 1, 0, 1 >>

PacketLabel63 == << 63 >> \o [i \in 1..63 |-> 120] \o << 0,  0, 1, 0, 1 >>

\* A label of 63 bytes 'x' with its length byte.
Label63 == << 63 >> \o [i \in 1..63 |-> 120]

\* A question whose name is four labels of 63 bytes (255 bytes with the
\* dots), and one with a fifth label "a" (257 bytes).
PacketName255 ==
    Label63 \o Label63 \o Label63 \o Label63 \o << 0,  0, 1, 0, 1 >>

PacketName257 ==
    Label63 \o Label63 \o Label63 \o Label63 \o << 1, 97, 0,  0, 1, 0, 1 >>

\* A question of three labels of 63 bytes at offset 0, then at offset 197
\* a question of a label of 63 bytes, "a" and a pointer to offset 0.
PacketNameByPointer ==
    Label63 \o Label63 \o Label63 \o << 0,  0, 1, 0, 1 >>
        \o Label63 \o << 1, 97, 192, 0,  0, 1, 0, 1 >>

\* << bytes, start offset >> of the questions whose names are looked at.
NamedInputs ==
    { << PacketTwoQuestions, 12 >>, << PacketTwoQuestions, 29 >>,
      << PacketPointerChain, 12 >>, << PacketPointerChain, 29 >>,
      << PacketPointerChain, 39 >>,
      << PacketPointerThenPlain, 12 >>, << PacketPointerThenPlain, 39 >>,
      << PacketForward, 0 >>, << PacketForward, 6 >>,
      << PacketLabelsAndPointers, 0 >>, << PacketLabelsAndPointers, 10 >>,
      << PacketLabelsAndPointers, 14 >>,
      << PacketLabel63, 0 >>, << PacketLabel64, 0 >>, << PacketLabel191, 0 >>,
      << PacketName255, 0 >>, << PacketName257, 0 >>,
      << PacketNameByPointer, 0 >>, << PacketNameByPointer, 197 >> }

DecoderInputs ==
    {<< b, o >> : b \in ShortBuffers, o \in 0..MaxBytes} \cup
    {<< q, HeaderLength >> : q \in Queries} \cup
    {<< q, 0 >> : q \in TypedQuestions} \cup
    NamedInputs

\* data[off] as a step reads it.  Every read is recorded in dec.reads; the
\* code as written reads only below len(data).
ByteAt(bytes, off) == IF off < Len(bytes) THEN bytes[off + 1] ELSE 0

\* data[from:to]
Slice(bytes, from, to) == [i \in 1..(to - from) |-> ByteAt(bytes, from + i - 1)]

\* ParseQuestion before it is called.
DecIdle ==
    [pc |-> "start", offset |-> 0, domain |-> << >>, visited |-> {}, jumped |-> FALSE,
     returnOffset |-> 0, reads |-> {}, steps |-> 0, result |-> QuestionErr("")]

\* return nil, 0, err
decFail(d, msg) == [d EXCEPT !.pc = "done", !.result = QuestionErr(msg)]

\* decodeDomainName before its loop: the range check and the root name.
decEnter(bytes, offset) ==
    IF offset >= U16(Len(bytes)) THEN decFail(DecIdle, "offset out of range")
    ELSE IF ByteAt(bytes, offset) = 0
    THEN [DecIdle EXCEPT !.pc = "fields", !.offset = U16(offset + 1), !.reads = {offset}]
    ELSE [DecIdle EXCEPT !.pc = "loop", !.offset = offset, !.returnOffset = offset,
                         !.reads = {offset}]

\* Variant: the visited set is never consulted.
neverVisited(visited, offset) == FALSE

\* _, ok := visited[offset]
alreadyVisited(visited, offset) == offset \in visited

\* Variant: the label is taken without the length check.
labelAlwaysFits(offset, length, maxLen) == TRUE

\* not (offset+length > uint16(len(data)))
labelFits(offset, length, maxLen) == U16(offset + length) <= maxLen

\* The dot appended after a label that another label follows.
withDot(bytes, domain, offset) ==
    IF /\ offset < U16(Len(bytes))
       /\ ByteAt(bytes, offset) # 0
       /\ BitAnd(ByteAt(bytes, offset), 192) # 192
    THEN Append(domain, 46)
    ELSE domain

\* The reads of the dot test.
dotReads(bytes, offset) == IF offset < U16(Len(bytes)) THEN {offset} ELSE {}

\* One iteration on a label of the given length, offset being past the
\* length byte.
decLabel(bytes, d, offset, length) ==
    IF ~labelFits(offset, length, U16(Len(bytes))) THEN decFail(d, "invalid label length")
    ELSE [d EXCEPT !.offset = U16(offset + length),
                   !.domain = withDot(bytes, @ \o Slice(bytes, offset, offset + length),
                                      U16(offset + length)),
                   !.reads  = @ \cup (offset..(offset + length - 1))
                                \cup dotReads(bytes, U16(offset + length))]

\* Variant: every jump records its return offset.
decJumpRecordsEach(bytes, d, pointer) ==
    IF pointer >= U16(Len(bytes)) THEN decFail(d, "pointer out of range")
    ELSE [d EXCEPT !.returnOffset = U16(d.offset + 2),
                   !.jumped = TRUE,
                   !.offset = pointer]

\* One iteration on a pointer whose two bytes have been read.
decJump(bytes, d, pointer) ==
    IF pointer >= U16(Len(bytes)) THEN decFail(d, "pointer out of range")
    ELSE [d EXCEPT !.returnOffset = IF d.jumped THEN @ ELSE U16(d.offset + 2),
                   !.jumped = TRUE,
                   !.offset = pointer]

\* One iteration on a pointer.
decPointer(bytes, d) ==
    IF U16(d.offset + 1) >= U16(Len(bytes)) THEN decFail(d, "invalid pointer")
    ELSE decJump(bytes, [d EXCEPT !.reads = @ \cup {d.offset, d.offset + 1}],
                 BitAnd(ByteAt(bytes, d.offset) * 256 + ByteAt(bytes, d.offset + 1), 16383))

\* One iteration from the read of the length byte on.
decLength(bytes, d, length) ==
    IF length = 0
    THEN [d EXCEPT !.pc = "fields",
                   !.offset = IF d.jumped THEN d.returnOffset ELSE U16(d.offset + 1)]
    ELSE IF BitAnd(length, 192) = 192 THEN decPointer(bytes, d)
    ELSE decLabel(bytes, d, U16(d.offset + 1), length)

\* One iteration of the loop of decodeDomainName.
decIterate(bytes, d) ==
    IF d.offset >= U16(Len(bytes)) THEN decFail(d, "offset out of range")
    ELSE IF alreadyVisited(d.visited, d.offset) THEN decFail(d, "detected pointer loop")
    ELSE decLength(bytes,
                   [d EXCEPT !.visited = @ \cup {d.offset},
                             !.reads = @ \cup {d.offset},
                             !.steps = @ + 1],
                   ByteAt(bytes, d.offset))

\* ParseQuestion once QTYPE and QCLASS have been read.
decTyped(d, qType, qClass) ==
    IF qType \notin validQTypes THEN decFail(d, "invalid QType")
    ELSE IF qClass \notin validQClasses THEN decFail(d, "invalid QClass")
    ELSE [d EXCEPT !.pc = "done",
                   !.result = [err      |-> "",
                               question |-> [DomainName |-> d.domain, QType |-> qType,
                                             QClass |-> qClass],
                               next     |-> U16(d.offset + 4)]]

\* ParseQuestion after decodeDomainName returned without an error.
decFields(bytes, d) ==
    IF U16(d.offset + 4) > U16(Len(bytes)) THEN decFail(d, "incomplete question section")
    ELSE decTyped([d EXCEPT !.reads = @ \cup (d.offset..(d.offset + 3))],
                  ByteAt(bytes, d.offset) * 256 + ByteAt(bytes, d.offset + 1),
                  ByteAt(bytes, d.offset + 2) * 256 + ByteAt(bytes, d.offset + 3))

CodecIdle ==
    /\ query = << >>
    /\ start = 0
    /\ dec = DecIdle
    /\ resolved = << >>


\* ParseQuestion(query, start) is called and decodeDomainName reaches its loop.
DecodeEnter ==
    /\ dec.pc = "start"
    /\ dec' = decEnter(query, start)
    /\ UNCHANGED << query, start, resolved, serverVars, cacheVars, updaterVars, sliceVars, headerVars, builderVars >>

\* The loop of decodeDomainName runs once.
DecodeIterate ==
    /\ dec.pc = "loop"
    /\ dec' = decIterate(query, dec)
    /\ UNCHANGED << query, start, resolved, serverVars, cacheVars, updaterVars, sliceVars, headerVars, builderVars >>

\* ParseQuestion reads QTYPE and QCLASS and returns.
DecodeFields ==
    /\ dec.pc = "fields"
    /\ dec' = decFields(query, dec)
    /\ UNCHANGED << query, start, resolved, serverVars, cacheVars, updaterVars, sliceVars, headerVars, builderVars >>

\* resolver.Resolve(ctx, query)
ResolveQuery ==
    /\ resolved = << >>
    /\ resolved' = << Resolve(query, data) >>
    /\ UNCHANGED << query, start, dec, serverVars, cacheVars, updaterVars, sliceVars, headerVars, builderVars >>

\* ------------------------------------------------------------------------
\* Cache operations as steps
\* ------------------------------------------------------------------------

\* The (domain, qtype) pairs the cache is used with.
CachePairs == { << NameAB, 1 >>, << NameAB, 16 >>, << NameC, 1 >> }

CacheValues == { << 1 >>, << 2, 3 >> }

CacheTTLs == {Seconds(1)}

\* A mapping from (domain, qtype) as a map from formatted keys, as the
\* record loader hands it to Update.
KeyedMap(pm) ==
    [k \in {formatKey(p[1], p[2]) : p \in DOMAIN pm} |->
        pm[CHOOSE p \in DOMAIN pm : formatKey(p[1], p[2]) = k]]

\* Mappings a refresh can produce.
Mappings ==
    { << >>,
      (<< NameAB, 1 >> :> Record(<< 9 >>, Seconds(1))),
      (<< NameAB, 16 >> :> Record(<< 8 >>, Seconds(2))) @@
      (<< NameC, 1 >> :> Record(<< 7 >>, Seconds(1))) }

NoCall ==
    [op |-> "none", domain |-> << >>, qType |-> 0, result |-> << >>,
     at |-> 0, mapping |-> << >>, before |-> {}]

\* The (domain, qtype) pairs a Get hits on the map m.
Hits(m) == {p \in CachePairs : MapGet(m, p[1], p[2]) # << >>}

CacheIdle ==
    /\ now = 0
    /\ storedAt = [p \in CachePairs |-> << >>]
    /\ ref = [p \in CachePairs |-> << >>]
    /\ got = NoCall

\* c.Set(domain, qType, value, ttl)
CacheSet(domain, qType, value, ttl) ==
    /\ data' = MapSet(data, domain, qType, value, ttl)
    /\ ref' = [ref EXCEPT ![<< domain, qType >>] = << Record(value, ttl) >>]
    /\ storedAt' = [storedAt EXCEPT ![<< domain, qType >>] = << now >>]
    /\ got' = [NoCall EXCEPT !.op = "Set", !.domain = domain, !.qType = qType]
    /\ UNCHANGED << now, serverVars, extraVars >>

\* c.Get(domain, qType)
CacheGet(domain, qType) ==
    /\ got' = [NoCall EXCEPT !.op = "Get", !.domain = domain, !.qType = qType,
                             !.result = MapGet(data, domain, qType), !.at = now]
    /\ UNCHANGED << data, now, storedAt, ref, serverVars, extraVars >>

\* c.Update(newRecords), newRecords being the keyed form of pm
CacheUpdate(pm) ==
    /\ data' = MapUpdate(data, KeyedMap(pm))
    /\ ref' = [p \in CachePairs |-> IF p \in DOMAIN pm THEN << pm[p] >> ELSE << >>]
    /\ storedAt' = [p \in CachePairs |-> << >>]
    /\ got' = [NoCall EXCEPT !.op = "Update", !.mapping = pm, !.before = Hits(data)]
    /\ UNCHANGED << now, serverVars, extraVars >>

\* One second passes.
Tick ==
    /\ now < MaxTime
    /\ now' = now + 1
    /\ UNCHANGED << data, storedAt, ref, got, serverVars, extraVars >>

\* ------------------------------------------------------------------------
\* The cache with its lock, the background refresh and concurrent callers
\* ------------------------------------------------------------------------

\* Ticks of the refresh ticker in one run.
MaxTicks == 1

\* Calls of Get, Set and query tasks in one run.
MaxCalls == 2

\* Calls of Stop in one run.
MaxStops == 2

\* The goroutines that call the cache besides the updater.
Clients == {"c1", "c2"}

\* The pairs they use.
ClientPairs == { << NameAB, 1 >>, << NameC, 1 >> }

\* The value and the TTL a client passes to Set.
SetValue(c) == IF c = "c1" THEN << 1 >> ELSE << 2, 3 >>

SetTTL(c) == IF c = "c1" THEN Seconds(1) ELSE Seconds(2)

\* What loadFromFile returns: a mapping and no error, or nil and an error.
LoadResults ==
    { [err |-> "", nil |-> FALSE, records |-> << >>],
      [err |-> "", nil |-> FALSE,
       records |-> KeyedMap(<< NameAB, 1 >> :> Record(<< 9 >>, Seconds(3)))],
      [err |-> "failed to load", nil |-> TRUE, records |-> << >>] }

NoLoad == [err |-> "", nil |-> FALSE, records |-> << >>]

\* sync.RWMutex: the goroutine holding the write lock, those holding a
\* read lock.
MuFree == [writer |-> "none", readers |-> {}]

\* Variant: Lock returns at once.
canLockAlways(m) == TRUE

\* c.mu.Lock() can return.
canLock(m) == m.writer = "none" /\ m.readers = {}

\* c.mu.RLock() can return.
canRLock(m) == m.writer = "none"

\* Variant: Get returns with its read lock held.
muAfterGetKept(m, c) == m

\* defer c.mu.RUnlock() of Get, run at its return.
muAfterGet(m, c) == [m EXCEPT !.readers = @ \ {c}]

\* Variant: refresh goes on to Update whatever loadFromFile returned.
loadNeverFailed(r) == FALSE

\* err != nil after loadFromFile
loadFailed(r) == r.err # ""

ClientIdle == [pc |-> "idle", op |-> "none", pair |-> << << >>, 0 >>, result |-> << >>]

UpdaterIdle ==
    /\ mu = MuFree
    /\ dataNil = FALSE
    /\ stopCh = "open"
    /\ stops = 0
    /\ panic = ""
    /\ ticker = [pending |-> FALSE, fired |-> 0]
    /\ upd = [pc |-> "new", startup |-> TRUE, load |-> NoLoad, last |-> "none"]
    /\ cl = [c \in Clients |-> ClientIdle]
    /\ calls = 0
    /\ written = {}

\* The entries of a keyed map as << key, record >> pairs.
Entries(m) == {<< k, m[k] >> : k \in DOMAIN m}

\* NewCache: the map and stopCh are made and refresh calls loadFromFile.
NewCacheRefresh ==
    /\ panic = ""
    /\ upd.pc = "new"
    /\ upd' = [upd EXCEPT !.pc = "loading"]
    /\ UNCHANGED << mu, dataNil, stopCh, stops, panic, ticker, cl, calls, written,
                    serverVars, cacheVars, codecVars, sliceVars, headerVars, builderVars >>

\* A tick is delivered on ticker.C, which buffers one.
TickerFire ==
    /\ panic = ""
    /\ ~upd.startup
    /\ upd.pc # "exited"
    /\ ~ticker.pending
    /\ ticker.fired < MaxTicks
    /\ ticker' = [pending |-> TRUE, fired |-> ticker.fired + 1]
    /\ UNCHANGED << mu, dataNil, stopCh, stops, panic, upd, cl, calls, written,
                    serverVars, cacheVars, codecVars, sliceVars, headerVars, builderVars >>

\* startUpdater: case <-ticker.C, refresh calls loadFromFile.
UpdaterTick ==
    /\ panic = ""
    /\ upd.pc = "select"
    /\ ticker.pending
    /\ ticker' = [ticker EXCEPT !.pending = FALSE]
    /\ upd' = [upd EXCEPT !.pc = "loading"]
    /\ UNCHANGED << mu, dataNil, stopCh, stops, panic, cl, calls, written,
                    serverVars, cacheVars, codecVars, sliceVars, headerVars, builderVars >>

\* Variant: the updater's select has no case for stopCh.
stopNeverReady(ch) == FALSE

\* <-c.stopCh can return.
stopReady(ch) == ch = "closed"

\* startUpdater: case <-c.stopCh, the goroutine returns.
UpdaterStop ==
    /\ panic = ""
    /\ upd.pc = "select"
    /\ stopReady(stopCh)
    /\ upd' = [upd EXCEPT !.pc = "exited"]
    /\ UNCHANGED << mu, dataNil, stopCh, stops, panic, ticker, cl, calls, written,
                    serverVars, cacheVars, codecVars, sliceVars, headerVars, builderVars >>

\* loadFromFile returns r: on an error refresh returns it, the caller logs
\* and goes on (NewCache starts the updater, the updater waits for the next
\* tick); otherwise refresh calls Update.
LoadReturn(r) ==
    /\ panic = ""
    /\ upd.pc = "loading"
    /\ upd' = IF loadFailed(r)
              THEN [upd EXCEPT !.pc = "select", !.startup = FALSE, !.load = r,
                               !.last = "error"]
              ELSE [upd EXCEPT !.pc = "lock", !.load = r]
    /\ UNCHANGED << mu, dataNil, stopCh, stops, panic, ticker, cl, calls, written,
                    serverVars, cacheVars, codecVars, sliceVars, headerVars, builderVars >>

\* Update: c.mu.Lock()
UpdateLock ==
    /\ panic = ""
    /\ upd.pc = "lock"
    /\ canLock(mu)
    /\ mu' = [mu EXCEPT !.writer = "updater"]
    /\ upd' = [upd EXCEPT !.pc = "store"]
    /\ UNCHANGED << dataNil, stopCh, stops, panic, ticker, cl, calls, written,
                    serverVars, cacheVars, codecVars, sliceVars, headerVars, builderVars >>

\* Update: c.data = newRecords, the deferred Unlock, and the return of
\* refresh to its caller.
UpdateStore ==
    /\ panic = ""
    /\ upd.pc = "store"
    /\ data' = MapUpdate(data, upd.load.records)
    /\ dataNil' = upd.load.nil
    /\ written' = written \cup Entries(upd.load.records)
    /\ mu' = [mu EXCEPT !.writer = "none"]
    /\ upd' = [upd EXCEPT !.pc = "select", !.startup = FALSE, !.last = "ok"]
    /\ UNCHANGED << stopCh, stops, panic, ticker, cl, calls,
                    serverVars, now, storedAt, ref, got, codecVars, sliceVars, headerVars, builderVars >>

\* Stop: close(c.stopCh); closing a closed channel panics.
CacheStop ==
    /\ panic = ""
    /\ ~upd.startup
    /\ stops < MaxStops
    /\ stops' = stops + 1
    /\ IF stopCh = "closed"
       THEN panic' = "close of closed channel" /\ UNCHANGED stopCh
       ELSE stopCh' = "closed" /\ UNCHANGED panic
    /\ UNCHANGED << mu, dataNil, ticker, upd, cl, calls, written,
                    serverVars, cacheVars, codecVars, sliceVars, headerVars, builderVars >>

\* A goroutine calls Get(p), directly or from BuildDNSResponse in a query
\* task (op "Query"), or Set(p, SetValue(c), SetTTL(c)).
Call(c, op, p) ==
    /\ panic = ""
    /\ ~upd.startup
    /\ cl[c].pc = "idle"
    /\ calls < MaxCalls
    /\ calls' = calls + 1
    /\ cl' = [cl EXCEPT ![c] = [pc |-> IF op = "Set" THEN "lock" ELSE "rlock",
                                op |-> op, pair |-> p, result |-> << >>]]
    /\ UNCHANGED << mu, dataNil, stopCh, stops, panic, ticker, upd, written,
                    serverVars, cacheVars, codecVars, sliceVars, headerVars, builderVars >>

\* Get: c.mu.RLock()
GetRLock(c) ==
    /\ panic = ""
    /\ cl[c].pc = "rlock"
    /\ canRLock(mu)
    /\ mu' = [mu EXCEPT !.readers = @ \cup {c}]
    /\ cl' = [cl EXCEPT ![c].pc = "reading"]
    /\ UNCHANGED << dataNil, stopCh, stops, panic, ticker, upd, calls, written,
                    serverVars, cacheVars, codecVars, sliceVars, headerVars, builderVars >>

\* Get: the map read and the return; a query task goes on to WriteToUDP.
GetRead(c) ==
    /\ panic = ""
    /\ cl[c].pc = "reading"
    /\ mu' = muAfterGet(mu, c)
    /\ cl' = [cl EXCEPT ![c].result = MapGet(data, cl[c].pair[1], cl[c].pair[2]),
                        ![c].pc = IF cl[c].op = "Query" THEN "write" ELSE "idle"]
    /\ UNCHANGED << dataNil, stopCh, stops, panic, ticker, upd, calls, written,
                    serverVars, cacheVars, codecVars, sliceVars, headerVars, builderVars >>

\* The query task's WriteToUDP returns.
QueryWrite(c) ==
    /\ panic = ""
    /\ cl[c].pc = "write"
    /\ cl' = [cl EXCEPT ![c].pc = "idle"]
    /\ UNCHANGED << mu, dataNil, stopCh, stops, panic, ticker, upd, calls, written,
                    serverVars, cacheVars, codecVars, sliceVars, headerVars, builderVars >>

\* Set: c.mu.Lock()
SetLock(c) ==
    /\ panic = ""
    /\ cl[c].pc = "lock"
    /\ canLock(mu)
    /\ mu' = [mu EXCEPT !.writer = c]
    /\ cl' = [cl EXCEPT ![c].pc = "storeValue"]
    /\ UNCHANGED << dataNil, stopCh, stops, panic, ticker, upd, calls, written,
                    serverVars, cacheVars, codecVars, sliceVars, headerVars, builderVars >>

\* The TTL found under the pair before a Set, the zero Duration if none.
oldTTL(m, p) ==
    IF MapGet(m, p[1], p[2]) = << >> THEN Seconds(0) ELSE MapGet(m, p[1], p[2])[1].TTL

\* Set: c.data[key] = Record{...}, the first word stored; the assignment
\* is not atomic, and on a nil map it panics.
SetStoreValue(c) ==
    /\ panic = ""
    /\ cl[c].pc = "storeValue"
    /\ IF dataNil
       THEN panic' = "assignment to entry in nil map" /\ UNCHANGED << data, cl >>
       ELSE /\ data' = MapSet(data, cl[c].pair[1], cl[c].pair[2], SetValue(c),
                              oldTTL(data, cl[c].pair))
            /\ cl' = [cl EXCEPT ![c].pc = "storeTTL"]
            /\ UNCHANGED panic
    /\ UNCHANGED << mu, dataNil, stopCh, stops, ticker, upd, calls, written,
                    serverVars, now, storedAt, ref, got, codecVars, sliceVars, headerVars, builderVars >>

\* Set: the rest of the record stored, and the deferred Unlock.
SetStoreTTL(c) ==
    /\ panic = ""
    /\ cl[c].pc = "storeTTL"
    /\ data' = MapSet(data, cl[c].pair[1], cl[c].pair[2], SetValue(c), SetTTL(c))
    /\ written' = written \cup
                  {<< formatKey(cl[c].pair[1], cl[c].pair[2]), Record(SetValue(c), SetTTL(c)) >>}
    /\ mu' = [mu EXCEPT !.writer = "none"]
    /\ cl' = [cl EXCEPT ![c].pc = "idle"]
    /\ UNCHANGED << dataNil, stopCh, stops, panic, ticker, upd, calls,
                    serverVars, now, storedAt, ref, got, codecVars, sliceVars, headerVars, builderVars >>

\* ------------------------------------------------------------------------
\* Byte slices and their backing arrays: what Set stores and Get returns
\* ------------------------------------------------------------------------

\* The arrays the caller may allocate.
MaxArrays == 2

\* The contents a caller gives a new []byte, and the bytes it writes later.
SliceBytes == {1, 2}

NewContents == { << 1 >>, << 1, 2 >> }

SliceTTLs == { Seconds(1), Seconds(2) }

SlicePairs == { << NameAB, 1 >>, << NameC, 1 >> }

\* A []byte: the array it points into and its length.
SliceHeader(a, n) == [array |-> a, len |-> n]

\* The bytes a []byte shows now.
BytesOf(s) == SubSeq(arrays[s.array], 1, s.len)

\* What Get of the pair shows its caller now: a miss, or the record with
\* the bytes its Value points at.
Lookup(p) ==
    IF MapGet(data, p[1], p[2]) = << >> THEN << >>
    ELSE << Record(BytesOf(MapGet(data, p[1], p[2])[1].Value),
                   MapGet(data, p[1], p[2])[1].TTL) >>

\* Every []byte the caller can come to hold.
AllSlices == { SliceHeader(a, Len(v)) : a \in 1..MaxArrays, v \in NewContents }

SliceIdle ==
    /\ arrays = << >>
    /\ held = {}
    /\ ret = << >>

\* The caller makes a []byte: a new array, and a slice over all of it.
CallerMake(v) ==
    /\ Len(arrays) < MaxArrays
    /\ arrays' = Append(arrays, v)
    /\ held' = held \cup {SliceHeader(Len(arrays) + 1, Len(v))}
    /\ UNCHANGED << ret, serverVars, cacheVars, codecVars, updaterVars, headerVars, builderVars >>

\* Set: c.data[key] = Record{Value: value, TTL: ttl} stores the slice
\* header it was passed.
SliceSet(p, s, ttl) ==
    /\ s \in held
    /\ data' = MapSet(data, p[1], p[2], s, ttl)
    /\ UNCHANGED << now, storedAt, ref, got, sliceVars, serverVars, codecVars, updaterVars, headerVars, builderVars >>

\* Get: record, exists := c.data[key]; return &record. The struct is
\* copied, and with it the slice header, not the array.
SliceGet(p) ==
    /\ ret' = MapGet(data, p[1], p[2])
    /\ UNCHANGED << arrays, held, serverVars, cacheVars, codecVars, updaterVars, headerVars, builderVars >>

\* The caller writes a byte of the Value of the record Get returned.
WriteReturned(i, b) ==
    /\ ret # << >>
    /\ i \in 1..ret[1].Value.len
    /\ arrays' = [arrays EXCEPT ![ret[1].Value.array][i] = b]
    /\ UNCHANGED << held, ret, serverVars, cacheVars, codecVars, updaterVars, headerVars, builderVars >>

\* The caller assigns the TTL of the record Get returned.
WriteReturnedTTL(ttl) ==
    /\ ret # << >>
    /\ ret' = << [ret[1] EXCEPT !.TTL = ttl] >>
    /\ UNCHANGED << arrays, held, serverVars, cacheVars, codecVars, updaterVars, headerVars, builderVars >>

\* The caller writes a byte of a []byte it made, passed to Set or not.
WritePassed(s, i, b) ==
    /\ s \in held
    /\ i \in 1..s.len
    /\ arrays' = [arrays EXCEPT ![s.array][i] = b]
    /\ UNCHANGED << held, ret, serverVars, cacheVars, codecVars, updaterVars, headerVars, builderVars >>

\* ------------------------------------------------------------------------
\* Resolve on queries of several questions, against several caches
\* ------------------------------------------------------------------------

\* "example.com" and "www.example.com"
NameExample == << 101, 120, 97, 109, 112, 108, 101, 46, 99, 111, 109 >>

NameWWW == << 119, 119, 119, 46 >> \o NameExample

\* Names as queries carry them: labels, the root, a pointer to offset 12,
\* "www" followed by that pointer, and a pointer to offset 29.
WireAB == << 1, 97, 1, 98, 0 >>

WireC == << 1, 99, 0 >>

WireExample == << 7, 101, 120, 97, 109, 112, 108, 101, 3, 99, 111, 109, 0 >>

WireRoot == << 0 >>

\* A name of one label of 64 bytes 'x', and its wire form.
NameLabel64 == [i \in 1..64 |-> 120]

WireLabel64 == << 64 >> \o NameLabel64 \o << 0 >>

WirePointer12 == << 192, 12 >>

WireWWWPointer12 == << 3, 119, 119, 119, 192, 12 >>

WirePointer29 == << 192, 29 >>

\* One question section, class IN.
QuestionBytes(name, qType) == name \o PutUint16(qType) \o << 0, 1 >>

\* The question sections of the queries, as lists of questions.
BuilderBodies ==
    { << QuestionBytes(WireExample, 1) >>,
      << QuestionBytes(WireAB, 1) >>,
      << QuestionBytes(WireAB, 16) >>,
      << QuestionBytes(WireC, 1) >>,
      << QuestionBytes(WireRoot, 1) >>,
      << QuestionBytes(WireC, 16) >>,
      << QuestionBytes(WireLabel64, 1) >>,
      << QuestionBytes(WireC, 1), QuestionBytes(WireLabel64, 1) >>,
      << QuestionBytes(WireAB, 1), QuestionBytes(WireC, 1) >>,
      << QuestionBytes(WireC, 1), QuestionBytes(WireAB, 1) >>,
      << QuestionBytes(WireAB, 1), QuestionBytes(WireAB, 1) >>,
      << QuestionBytes(WireAB, 1), QuestionBytes(WirePointer12, 16) >>,
      << QuestionBytes(WireExample, 1), QuestionBytes(WireWWWPointer12, 1) >>,
      << QuestionBytes(WireC, 1), QuestionBytes(WireAB, 16), QuestionBytes(WireAB, 1) >>,
      << QuestionBytes(WireExample, 1), QuestionBytes(WireWWWPointer12, 1),
         QuestionBytes(WirePointer29, 1) >> }

RECURSIVE Concat(_)
Concat(seqs) == IF seqs = << >> THEN << >> ELSE Head(seqs) \o Concat(Tail(seqs))

\* << ANCount, NSCount, ARCount >> of the queries.
BuilderCounts == { << 0, 0, 0 >>, << 1, 2, 3 >> }

BuilderFlags == {256, 0}

BuilderQueries ==
    { PutUint16(4660) \o PutUint16(f) \o PutUint16(Len(b)) \o PutUint16(c[1])
          \o PutUint16(c[2]) \o PutUint16(c[3]) \o Concat(b) :
      f \in BuilderFlags, c \in BuilderCounts, b \in BuilderBodies }

\* cache.Set("example.com", 1, []byte{127, 0, 0, 1}, 300) on top of the
\* seeded records, with a record for www.example.com and one for the root.
CacheOfTests ==
    MapSet(MapSet(MapSet(SeedCache, NameExample, 1, << 127, 0, 0, 1 >>, Nanoseconds(300)),
                  NameWWW, 1, << 10, 0, 0, 7 >>, Seconds(60)),
           << >>, 1, << 1, 1, 1, 1 >>, Seconds(1))

\* Texts of 256 and of 255 bytes 't'.
Text256 == [i \in 1..256 |-> 116]

Text255 == [i \in 1..255 |-> 116]

\* A cache whose TXT record for a.b is too long to answer with.
CacheLongText ==
    MapSet(MapSet(MapSet(<< >>, NameAB, 16, Text256, Seconds(300)),
                  NameC, 16, Text255, Seconds(300)),
           NameC, 1, << 10, 0, 0, 1 >>, Seconds(300))

BuilderCaches ==
    { CacheOfTests,
      << >>,
      MapSet(<< >>, NameAB, 16, << 104, 105 >>, Seconds(300)),
      CacheLongText }

\* The arguments BuildDNSResponse is called with directly, as its test
\* does: no question, questions that hit and miss, a TXT question alone
\* and after another hit, and a name with a label of 64 bytes.
Question(name, qType) == [DomainName |-> name, QType |-> qType, QClass |-> 1]

BuilderQuestions ==
    { << >>,
      << Question(NameAB, 16) >>,
      << Question(NameAB, 1) >>,
      << Question(NameC, 16) >>,
      << Question(NameC, 1), Question(NameAB, 16) >>,
      << Question(NameLabel64, 1) >>,
      << Question(NameC, 1), Question(NameLabel64, 1) >> }

BuilderHeaders ==
    { [TransactionID |-> 4660, Flags |-> f, QDCount |-> qd,
       ANCount |-> c[1], NSCount |-> c[2], ARCount |-> c[3]] :
      f \in BuilderFlags, qd \in {1, 2}, c \in { << 0, 0, 0 >>, << 5, 2, 3 >> } }

BuildIdle == built = << >>

\* BuildDNSResponse is called with a list of questions and a pointer to a
\* header: what it returned, and the header before and after the call.
BuildResponse(questions, header) ==
    /\ BuildIdle
    /\ built' = << [questions |-> questions,
                    before    |-> header,
                    out       |-> BuildDNSResponse(questions, header, data)] >>
    /\ UNCHANGED << serverVars, cacheVars, codecVars, updaterVars, sliceVars, headerVars >>

\* ------------------------------------------------------------------------
\* The header written and parsed
\* ------------------------------------------------------------------------

\* Values of the uint16 fields of the headers written.
HeaderIDs == {0, 4660, 65535}

HeaderFlags == {0, 256, 4096, 6144, 33152, 65535}

HeaderQDCounts == {0, 1, 9, 10, 256, 65535}

HeaderANCounts == {0, 2, 65535}

HeaderNSCounts == {0, 258}

HeaderARCounts == {0, 1}

Headers ==
    [TransactionID : HeaderIDs, Flags : HeaderFlags, QDCount : HeaderQDCounts,
     ANCount : HeaderANCounts, NSCount : HeaderNSCounts, ARCount : HeaderARCounts]

\* Packets handed to the parsers: the first bytes of a query cut at every
\* length below 12, and 12 and more bytes with every opcode, with other
\* flag bits clear and set, and with QDCount values around the limits.
PacketOpcodes == 0..15

PacketOtherFlags == {0, 34815}

PacketQDCounts == {0, 1, 2, 9, 10, 11, 255, 256, 4369, 65535}

PacketTails == { << >>, << 1, 99, 0, 0, 1, 0, 1 >> }

HeaderPackets ==
    { SubSeq(PacketMiss, 1, n) : n \in 0..11 } \cup
    { PutUint16(4660) \o PutUint16(o * 2048 + f) \o PutUint16(qd)
          \o << 0, 2, 0, 0, 0, 1 >> \o t :
      o \in PacketOpcodes, f \in PacketOtherFlags, qd \in PacketQDCounts, t \in PacketTails }

HeaderIdle ==
    /\ hdr = << >>
    /\ wire = << >>
    /\ parsed = << >>

\* binary.Write(&buf, binary.BigEndian, header)
HeaderWrite(h) ==
    /\ HeaderIdle
    /\ hdr' = << h >>
    /\ wire' = HeaderBytes(h)
    /\ parsed' = << >>
    /\ UNCHANGED << serverVars, cacheVars, codecVars, updaterVars, sliceVars, builderVars >>

\* A packet comes in from the network.
PacketReceive(b) ==
    /\ HeaderIdle
    /\ hdr' = << >>
    /\ wire' = b
    /\ parsed' = << >>
    /\ UNCHANGED << serverVars, cacheVars, codecVars, updaterVars, sliceVars, builderVars >>

\* Both header parsers are called on the bytes.
HeaderParse ==
    /\ parsed = << >>
    /\ parsed' = << [validated |-> ParseHeader(wire), plain |-> parseDNSHeader(wire)] >>
    /\ UNCHANGED << hdr, wire, serverVars, cacheVars, codecVars, updaterVars, sliceVars, builderVars >>

\* Everything but the server and the plain cache is idle.
ExtraIdle == CodecIdle /\ UpdaterIdle /\ SliceIdle /\ HeaderIdle /\ BuildIdle

\* ------------------------------------------------------------------------
\* Server: Start, the read loop, the tasks, Stop
\* ------------------------------------------------------------------------

ServerInit ==
    /\ ctxDone = FALSE
    /\ startPc = "created"
    /\ readBegun = FALSE
    /\ done = FALSE
    /\ connOpen = TRUE
    /\ wg = 0
    /\ buf = << >>
    /\ inbox = << >>
    /\ arrivals = 0
    /\ tasks = << >>
    /\ sent = << >>
    /\ stopPc = "idle"
    /\ log = {}
    /\ lastRead = "none"

Init ==
    /\ ServerInit
    /\ data = SeedCache
    /\ CacheIdle
    /\ ExtraIdle

\* main: go srv.Start(ctx); Start logs and enters handleIncomingMessages.
StartCall ==
    /\ startPc = "created"
    /\ startPc' = "check"
    /\ UNCHANGED << ctxDone, readBegun, done, connOpen, wg, buf, inbox, arrivals,
                    tasks, sent, stopPc, log, lastRead, cacheVars, extraVars >>

\* main: cancel()
Cancel ==
    /\ ~ctxDone
    /\ ctxDone' = TRUE
    /\ UNCHANGED << startPc, readBegun, done, connOpen, wg, buf, inbox, arrivals,
                    tasks, sent, stopPc, log, lastRead, cacheVars, extraVars >>

\* A client's datagram reaches the open socket.
Arrive(addr, pkt) ==
    /\ connOpen
    /\ arrivals < MaxArrivals
    /\ Len(inbox) < MaxQueue
    /\ inbox' = Append(inbox, [addr |-> addr, pkt |-> pkt, late |-> ctxDone])
    /\ arrivals' = arrivals + 1
    /\ UNCHANGED << ctxDone, startPc, readBegun, done, connOpen, wg, buf,
                    tasks, sent, stopPc, log, lastRead, cacheVars, extraVars >>

\* Variant: the loop keeps reading while datagrams are queued.
LoopObservesCancelWhenIdle == ctxDone /\ inbox = << >>

\* case <-ctx.Done() of the loop's select is ready.
LoopObservesCancel == ctxDone

\* The select at the top of the loop: return on cancellation, otherwise
\* renew the deadline and start a read.
LoopCheck ==
    /\ startPc = "check"
    /\ IF LoopObservesCancel
       THEN /\ startPc' = "exited"
            /\ log' = log \cup {"Stopping message handling."}
            /\ UNCHANGED readBegun
       ELSE /\ startPc' = "read"
            /\ readBegun' = ctxDone
            /\ UNCHANGED log
    /\ lastRead' = "none"
    /\ UNCHANGED << ctxDone, done, connOpen, wg, buf, inbox, arrivals,
                    tasks, sent, stopPc, cacheVars, extraVars >>

Min(a, b) == IF a < b THEN a ELSE b

\* ReadFromUDP returned n bytes: copy them, wg.Add(1), go processPacket.
ReadDatagram ==
    /\ startPc = "read"
    /\ inbox # << >>
    /\ LET d     == Head(inbox)
           n     == Min(Len(d.pkt), BufSize)
           bytes == SubSeq(d.pkt, 1, n)
           buf1  == bytes \o SubSeq(buf, n + 1, Len(buf))
       IN  /\ buf' = buf1
           /\ tasks' = Append(tasks,
                 [addr |-> d.addr, n |-> n, data |-> SubSeq(buf1, 1, n),
                  orig |-> bytes, late |-> d.late, afterCancel |-> ctxDone,
                  pc |-> "resolve", resp |-> << >>, outcome |-> "running"])
    /\ inbox' = Tail(inbox)
    /\ wg' = wg + 1
    /\ startPc' = "check"
    /\ lastRead' = "ok"
    /\ UNCHANGED << ctxDone, readBegun, done, connOpen, arrivals, sent, stopPc, log, cacheVars, extraVars >>

ReadFailures == {"timeout", "error"}

\* What the loop logs when ReadFromUDP fails.
ReadFailureLog(kind) ==
    IF kind = "timeout" THEN {} ELSE {"Error reading from UDP connection"}

\* Variant: a read error other than a timeout ends the loop.
AfterReadFailureReturns(kind) == IF kind = "error" THEN "exited" ELSE "check"

\* Where the loop goes when ReadFromUDP fails.
AfterReadFailure(kind) == "check"

\* Variant: no deadline is set, the read blocks until a datagram arrives.
ReadNeverTimesOut == FALSE

\* The read deadline set before the read passes with nothing queued.
ReadTimesOut == inbox = << >>

\* ReadFromUDP failed: the deadline passed, or another error.
ReadFail(kind) ==
    /\ startPc = "read"
    /\ kind = "timeout" => ReadTimesOut
    /\ lastRead' = kind
    /\ log' = log \cup ReadFailureLog(kind)
    /\ startPc' = AfterReadFailure(kind)
    /\ UNCHANGED << ctxDone, readBegun, done, connOpen, wg, buf, inbox, arrivals,
                    tasks, sent, stopPc, cacheVars, extraVars >>

\* Variant: the task is handed buf[:n] itself.
TaskDataAliased(t) == SubSeq(buf, 1, t.n)

\* The query bytes task t works on.
TaskData(t) == t.data

\* Variant: processPacket writes whatever Resolve returned.
AfterResolveAlwaysWrites(r) == "write"

\* Where processPacket goes after Resolve.
AfterResolve(r) == IF r.err # "" THEN "done" ELSE "write"

\* processPacket from the return of Resolve, r, on: log and return on an
\* error (the deferred wg.Done() runs), otherwise go on to write.
taskResolved(i, r) ==
    /\ tasks' = [tasks EXCEPT ![i].pc = AfterResolve(r),
                              ![i].resp = r.resp,
                              ![i].outcome = IF r.err # "" THEN "resolveError"
                                             ELSE "running"]
    /\ log' = IF r.err # "" THEN log \cup {"Error building DNS response"} ELSE log
    /\ wg' = IF AfterResolve(r) = "done" THEN wg - 1 ELSE wg

\* processPacket up to the return of Resolve.
TaskResolve(i) ==
    /\ i \in 1..Len(tasks)
    /\ tasks[i].pc = "resolve"
    /\ taskResolved(i, Resolve(TaskData(tasks[i]), data))
    /\ UNCHANGED << ctxDone, startPc, readBegun, done, connOpen, buf, inbox, arrivals,
                    sent, stopPc, lastRead, cacheVars, extraVars >>

\* WriteToUDP(resp, addr) and the deferred wg.Done(); the write fails on a
\* closed socket and may fail on an open one.
TaskWrite(i, ok) ==
    /\ i \in 1..Len(tasks)
    /\ tasks[i].pc = "write"
    /\ ok => connOpen
    /\ sent' = IF ok THEN Append(sent, [task |-> i, addr |-> tasks[i].addr,
                                        resp |-> tasks[i].resp])
               ELSE sent
    /\ tasks' = [tasks EXCEPT ![i].pc = "done",
                              ![i].outcome = IF ok THEN "written"
                                             ELSE IF connOpen THEN "writeError"
                                             ELSE "writeOnClosed"]
    /\ log' = IF ok THEN log ELSE log \cup {"Error writing DNS response"}
    /\ wg' = wg - 1
    /\ UNCHANGED << ctxDone, startPc, readBegun, done, connOpen, buf, inbox, arrivals,
                    stopPc, lastRead, cacheVars, extraVars >>

\* Start's deferred function, first statement: close(s.done).
StartCloseDone ==
    /\ startPc = "exited"
    /\ done' = TRUE
    /\ startPc' = "closing"
    /\ UNCHANGED << ctxDone, readBegun, connOpen, wg, buf, inbox, arrivals,
                    tasks, sent, stopPc, log, lastRead, cacheVars, extraVars >>

\* Start's deferred function, second statement: s.conn.Close().
StartCloseConn ==
    /\ startPc = "closing"
    /\ connOpen' = FALSE
    /\ inbox' = << >>
    /\ startPc' = "returned"
    /\ UNCHANGED << ctxDone, readBegun, done, wg, buf, arrivals,
                    tasks, sent, stopPc, log, lastRead, cacheVars, extraVars >>

\* main: srv.Stop() is called and blocks on <-s.done.
StopCall ==
    /\ stopPc = "idle"
    /\ stopPc' = "waitDone"
    /\ UNCHANGED << ctxDone, startPc, readBegun, done, connOpen, wg, buf, inbox,
                    arrivals, tasks, sent, log, lastRead, cacheVars, extraVars >>

\* <-s.done returns.
StopRecvDone ==
    /\ stopPc = "waitDone"
    /\ done
    /\ stopPc' = "waitWg"
    /\ UNCHANGED << ctxDone, startPc, readBegun, done, connOpen, wg, buf, inbox,
                    arrivals, tasks, sent, log, lastRead, cacheVars, extraVars >>

\* Variant: Stop does not wait for the tasks.
WaitGroupWaitSkipped == TRUE

\* s.wg.Wait() returns.
WaitGroupWait == wg = 0

StopWait ==
    /\ stopPc = "waitWg"
    /\ WaitGroupWait
    /\ stopPc' = "returned"
    /\ UNCHANGED << ctxDone, startPc, readBegun, done, connOpen, wg, buf, inbox,
                    arrivals, tasks, sent, log, lastRead, cacheVars, extraVars >>

Next ==
    \/ StartCall
    \/ Cancel
    \/ \E d \in Datagrams : Arrive(d[1], d[2])
    \/ LoopCheck
    \/ ReadDatagram
    \/ \E kind \in ReadFailures : ReadFail(kind)
    \/ \E i \in 1..Len(tasks) : TaskResolve(i)
    \/ \E i \in 1..Len(tasks), ok \in BOOLEAN : TaskWrite(i, ok)
    \/ StartCloseDone
    \/ StartCloseConn
    \/ StopCall
    \/ StopRecvDone
    \/ StopWait

Spec == Init /\ [][Next]_vars

\* Some task has not returned: the enabling condition of the task steps.
TaskPending == \E i \in 1..Len(tasks) : tasks[i].pc # "done"

\* Some task moves on: a TaskResolve or TaskWrite step.
TaskProgress == \E i \in 1..Len(tasks) : tasks[i].pc # "done" /\ tasks'[i].pc # tasks[i].pc

\* Weak fairness of the task steps, with the enabling condition written out.
TaskFairness == []<>(~TaskPending) \/ []<><<TaskProgress>>_vars

\* The goroutines are scheduled, ReadFromUDP returns at its deadline at the
\* latest, and Resolve and WriteToUDP return; nothing forces a cancellation,
\* an arrival, a read error or a call of Start or Stop.
Fairness ==
    /\ WF_vars(LoopCheck \/ ReadDatagram \/ ReadFail("timeout"))
    /\ WF_vars(StartCloseDone \/ StartCloseConn)
    /\ TaskFairness
    /\ WF_vars(StopRecvDone \/ StopWait)

FairSpec == Init /\ [][Next]_vars /\ Fairness

\* The cache alone, created empty (NewTestCache), with the server idle.
CacheInit ==
    /\ ServerInit
    /\ data = << >>
    /\ CacheIdle
    /\ ExtraIdle

CacheNext ==
    \/ \E p \in CachePairs, v \in CacheValues, ttl \in CacheTTLs : CacheSet(p[1], p[2], v, ttl)
    \/ \E p \in CachePairs : CacheGet(p[1], p[2])
    \/ \E pm \in Mappings : CacheUpdate(pm)
    \/ Tick

CacheSpec == CacheInit /\ [][CacheNext]_vars

\* The decoder and the resolver on one input, with the cache as main seeds
\* it and the server idle.
CodecInit ==
    /\ ServerInit
    /\ data = SeedCache
    /\ CacheIdle
    /\ \E in \in DecoderInputs : query = in[1] /\ start = in[2]
    /\ dec = DecIdle
    /\ resolved = << >>
    /\ UpdaterIdle
    /\ SliceIdle
    /\ HeaderIdle
    /\ BuildIdle

CodecNext ==
    \/ DecodeEnter
    \/ DecodeIterate
    \/ DecodeFields
    \/ ResolveQuery

CodecSpec == CodecInit /\ [][CodecNext]_vars

\* A call that has started runs to its return.
CodecFairSpec == CodecSpec /\ WF_vars(DecodeEnter \/ DecodeIterate \/ DecodeFields)

\* The cache as NewCache makes it, its updater, and goroutines calling
\* Get and Set and running query tasks; the server and the decoder idle.
UpdaterInit ==
    /\ ServerInit
    /\ data = << >>
    /\ CacheIdle
    /\ CodecIdle
    /\ UpdaterIdle
    /\ SliceIdle
    /\ HeaderIdle
    /\ BuildIdle

UpdaterNext ==
    \/ NewCacheRefresh
    \/ TickerFire
    \/ UpdaterTick
    \/ UpdaterStop
    \/ \E r \in LoadResults : LoadReturn(r)
    \/ UpdateLock
    \/ UpdateStore
    \/ CacheStop
    \/ \E c \in Clients, op \in {"Get", "Set", "Query"}, p \in ClientPairs : Call(c, op, p)
    \/ \E c \in Clients : GetRLock(c)
    \/ \E c \in Clients : GetRead(c)
    \/ \E c \in Clients : QueryWrite(c)
    \/ \E c \in Clients : SetLock(c)
    \/ \E c \in Clients : SetStoreValue(c)
    \/ \E c \in Clients : SetStoreTTL(c)

UpdaterSpec == UpdaterInit /\ [][UpdaterNext]_vars

\* A caller of a cache made by NewTestCache, with the slices it makes.
SliceInit ==
    /\ ServerInit
    /\ data = << >>
    /\ CacheIdle
    /\ ExtraIdle

SliceNext ==
    \/ \E v \in NewContents : CallerMake(v)
    \/ \E p \in SlicePairs, s \in AllSlices, ttl \in SliceTTLs : SliceSet(p, s, ttl)
    \/ \E p \in SlicePairs : SliceGet(p)
    \/ \E i \in 1..2, b \in SliceBytes : WriteReturned(i, b)
    \/ \E ttl \in SliceTTLs : WriteReturnedTTL(ttl)
    \/ \E s \in AllSlices, i \in 1..2, b \in SliceBytes : WritePassed(s, i, b)

SliceSpec == SliceInit /\ [][SliceNext]_vars

\* Resolve is called once on a query of several questions.
BuilderInit ==
    /\ ServerInit
    /\ data \in BuilderCaches
    /\ CacheIdle
    /\ query \in BuilderQueries
    /\ start = HeaderLength
    /\ dec = DecIdle
    /\ resolved = << >>
    /\ UpdaterIdle
    /\ SliceIdle
    /\ HeaderIdle
    /\ BuildIdle

BuilderNext ==
    \/ ResolveQuery
    \/ \E q \in BuilderQuestions, h \in BuilderHeaders : BuildResponse(q, h)

BuilderSpec == BuilderInit /\ [][BuilderNext]_vars

\* Headers are written and parsed back, packets are received and parsed.
HeaderInit ==
    /\ ServerInit
    /\ data = << >>
    /\ CacheIdle
    /\ ExtraIdle

HeaderNext ==
    \/ \E h \in Headers : HeaderWrite(h)
    \/ \E b \in HeaderPackets : PacketReceive(b)
    \/ HeaderParse

HeaderSpec == HeaderInit /\ [][HeaderNext]_vars

\* The steps of NewCache's refresh and of the updater goroutine.
UpdaterProgress ==
    \/ NewCacheRefresh
    \/ UpdaterTick
    \/ UpdaterStop
    \/ \E r \in LoadResults : LoadReturn(r)
    \/ UpdateLock
    \/ UpdateStore

\* The steps of a call in progress.
ClientProgress ==
    \E c \in Clients :
        GetRLock(c) \/ GetRead(c) \/ QueryWrite(c) \/ SetLock(c) \/ SetStoreValue(c)
            \/ SetStoreTTL(c)

\* The goroutines are scheduled, loadFromFile and WriteToUDP return, and a
\* lock that is free is taken by a goroutine waiting for it; nothing
\* forces a tick, a call or a Stop.
UpdaterFairSpec == UpdaterSpec /\ WF_vars(UpdaterProgress) /\ WF_vars(ClientProgress)

\* ------------------------------------------------------------------------
\* Properties of the server
\* ------------------------------------------------------------------------

TaskIds == 1..Len(tasks)

InFlight(i) == tasks[i].pc # "done"

LoopExited == startPc \in {"exited", "closing", "returned"}

\* C1: while the socket is closed no dispatched task is in flight, and no
\* task has had to write its response on a closed socket.
C1_SocketClosedAfterTasks ==
    /\ ~connOpen => \A i \in TaskIds : ~InFlight(i)
    /\ \A i \in TaskIds : tasks[i].outcome # "writeOnClosed"

\* C2: when Stop has returned, the read loop has exited, every task ever
\* dispatched is done and the wait group is at zero, so no task runs and
\* none can be started.
C2_StopReturnsAfterDrain ==
    stopPc = "returned" =>
        /\ LoopExited
        /\ done
        /\ wg = 0
        /\ \A i \in TaskIds : ~InFlight(i)

\* Stop has returned after tasks were dispatched and Stop was called while
\* one was in flight.
C2_Witness ==
    /\ stopPc = "returned"
    /\ Len(tasks) = MaxArrivals
    /\ \E i \in TaskIds : tasks[i].outcome = "written"

\* C3 (as stated): no datagram that arrived after the cancellation signal
\* is read and dispatched.
C3_NoLateDatagramRead == \A i \in TaskIds : ~tasks[i].late

\* C3 (amended): no read attempt begins once the signal has fired, so at
\* most one datagram, the one returned by the attempt in progress when the
\* signal fired, is read and dispatched after the signal.
C3_AtMostOneReadAfterCancel ==
    /\ startPc = "read" => ~readBegun
    /\ Cardinality({i \in TaskIds : tasks[i].afterCancel}) <= 1

\* A datagram that arrived after the signal was read by the attempt in
\* progress, and another datagram is left unread in the queue.
C3_Witness ==
    /\ \E i \in TaskIds : tasks[i].afterCancel /\ tasks[i].late
    /\ LoopExited
    /\ inbox # << >>

\* C4: once the signal has fired and Start has been called, the loop
\* exits, and a Stop that has been called returns.
C4_ShutdownCompletes ==
    /\ (ctxDone /\ startPc # "created") ~> LoopExited
    /\ (ctxDone /\ startPc # "created" /\ stopPc # "idle") ~> (stopPc = "returned")

\* Shutdown completed although no datagram ever arrived.
C4_Witness ==
    /\ stopPc = "returned"
    /\ startPc = "returned"
    /\ arrivals = 0

\* Low 4 bits of the flags of a response.
RCode(resp) == Uint16(resp, 2) % 16

IsNXDomainResponse(resp) ==
    /\ Len(resp) >= HeaderLength
    /\ RCode(resp) = NXDomain
    /\ Uint16(resp, 6) = 0

\* The parsed query pq decoded and none of its questions has a record in
\* the cache.
missesCache(pq) ==
    /\ pq.err = ""
    /\ \A k \in 1..Len(pq.questions) :
          MapGet(data, pq.questions[k].DomainName, pq.questions[k].QType) = << >>

\* The datagram is a well-formed query for records absent from the cache.
WellFormedMiss(bytes) == missesCache(ParseQuery(bytes))

SentFor(i) == {j \in 1..Len(sent) : sent[j].task = i}

C6_LoopExitsOnlyOnCancel ==
    [][ /\ (~LoopExited /\ LoopExited') => ctxDone
        /\ (startPc = "read" /\ lastRead' = "timeout") => log' = log
        /\ \A i \in TaskIds :
              (InFlight(i) /\ tasks'[i].outcome \in {"resolveError", "writeError"}) =>
                  /\ startPc' = startPc
                  /\ \A j \in TaskIds \ {i} : tasks'[j] = tasks[j] ]_vars

\* After a read error, a failed task and a timeout the loop is still
\* running and nothing was logged for the timeout.
C6_Witness ==
    /\ ~ctxDone
    /\ startPc = "check"
    /\ lastRead = "timeout"
    /\ \E i \in TaskIds : tasks[i].outcome = "resolveError"
    /\ \E i \in TaskIds : tasks[i].outcome = "writeError"
    /\ log = {"Error building DNS response", "Error writing DNS response"}

\* C7: a task in flight sees the bytes of its own datagram, whatever has
\* been read into the receive buffer since.
C7_TaskSeesOwnDatagram ==
    \A i \in TaskIds : InFlight(i) => TaskData(tasks[i]) = tasks[i].orig

\* A task is about to resolve while the buffer holds a later datagram.
C7_Witness ==
    \E i \in TaskIds :
        /\ tasks[i].pc = "resolve"
        /\ SubSeq(buf, 1, tasks[i].n) # tasks[i].orig

\* ------------------------------------------------------------------------
\* Properties of the cache
\* ------------------------------------------------------------------------

GotPair == << got.domain, got.qType >>

C9_GetMissesAfterTTL ==
    (/\ got.op = "Get"
     /\ storedAt[GotPair] # << >>
     /\ got.at > storedAt[GotPair][1] + ref[GotPair][1].TTL.secs)
        => got.result = << >>

\* C10: right after Update(newMapping), Get hits exactly the pairs of
\* newMapping, so every pair held before and absent from it is a miss.
C10_UpdateReplaces ==
    got.op = "Update" =>
        /\ Hits(data) = DOMAIN got.mapping
        /\ \A p \in got.before \ DOMAIN got.mapping : MapGet(data, p[1], p[2]) = << >>
        /\ \A p \in DOMAIN got.mapping : MapGet(data, p[1], p[2]) = << got.mapping[p] >>

\* An Update with a non-empty mapping dropped an entry held before.
C10_Witness ==
    /\ got.op = "Update"
    /\ got.mapping # << >>
    /\ got.before \ DOMAIN got.mapping # {}

\* "6c": with "c" and the types 1 and 16 it gives two pairs whose type
\* digits followed by the domain read the same.
Name6C == << 54, 99 >>

\* Pairs whose keys are compared: the pairs in use and the look-alikes.
KeyProbes ==
    CachePairs \cup { << NameC, 16 >>, << Name6C, 1 >>, << << >>, 1 >>, << << >>, 16 >> }

\* C15: different (domain, qtype) pairs have different keys, the map holds
\* one entry per pair it hits, and a Set of one pair leaves the result of
\* Get for every other pair as it was.
C15_PairsKeyedJointly ==
    [][ /\ \A p \in KeyProbes, q \in KeyProbes :
              formatKey(p[1], p[2]) = formatKey(q[1], q[2]) => p = q
        /\ Cardinality(DOMAIN data') = Cardinality(Hits(data'))
        /\ got'.op = "Set" =>
              \A q \in CachePairs \ {GotPair'} :
                  MapGet(data', q[1], q[2]) = MapGet(data, q[1], q[2]) ]_vars

\* An A and a TXT record of the same domain are held side by side, each as
\* its own Set stored it.
C15_Witness ==
    /\ got.op = "Set"
    /\ storedAt[<< NameAB, 1 >>] # << >>
    /\ storedAt[<< NameAB, 16 >>] # << >>
    /\ MapGet(data, NameAB, 1) # MapGet(data, NameAB, 16)
    /\ MapGet(data, NameAB, 1) = ref[<< NameAB, 1 >>]
    /\ MapGet(data, NameAB, 16) = ref[<< NameAB, 16 >>]

\* ------------------------------------------------------------------------
\* Properties of the decoder and the resolver
\* ------------------------------------------------------------------------

\* C17: decodeDomainName runs its loop once per distinct offset at most, so
\* at most len(data) times; an iteration that finds its offset already
\* visited returns the loop error; and every call returns.
C17_DecodingTerminates ==
    /\ [](dec.steps = Cardinality(dec.visited) /\ dec.steps <= Len(query))
    /\ [][ (dec.pc = "loop" /\ dec.offset \in dec.visited /\ dec' # dec) =>
               (dec'.pc = "done" /\ dec'.result.err = "detected pointer loop") ]_vars
    /\ <>(dec.pc = "done")

\* The bytes C0 00 at offset 0, decoded from offset 0, ended in the loop
\* error after one iteration.
C17_Witness ==
    /\ start = 0
    /\ Len(query) >= 2
    /\ SubSeq(query, 1, 2) = << 192, 0 >>
    /\ dec.pc = "done"
    /\ dec.steps = 1
    /\ dec.result.err = "detected pointer loop"

\* C18: ParseQuestion reads only bytes inside the packet, and it returns
\* either an error or a question with a valid type and class whose next
\* offset lies inside the packet; the steps return what the function does.
C18_ReadsInsidePacket ==
    /\ \A o \in dec.reads : o < Len(query)
    /\ dec.pc = "done" =>
          /\ dec.result = ParseQuestion(query, start)
          /\ \/ dec.result.err # "" /\ dec.result.question = NoQuestion
             \/ /\ dec.result.err = ""
                /\ dec.result.question.QType \in validQTypes
                /\ dec.result.question.QClass \in validQClasses
                /\ dec.result.next <= Len(query)

\* In a buffer of full length a first label was decoded and a second one,
\* running past the end, was refused, with only bytes of the packet read.
C18_Witness ==
    /\ dec.pc = "done"
    /\ dec.result.err = "invalid label length"
    /\ dec.steps = 2
    /\ dec.reads # {}
    /\ Len(query) = MaxBytes

\* The header of the packet passes ParseHeader.
HeaderDecodes(bytes) == Len(bytes) >= HeaderLength /\ ParseHeader(bytes).err = ""

\* The questions ParseQuestion returns when called k times in a row, the
\* first time at offset and then at the offset the call before returned;
\* the list ends at the first call that fails.
RECURSIVE QuestionChain(_, _, _)
QuestionChain(bytes, offset, k) ==
    IF k = 0 \/ ParseQuestion(bytes, offset).err # "" THEN << >>
    ELSE << ParseQuestion(bytes, offset).question >>
             \o QuestionChain(bytes, ParseQuestion(bytes, offset).next, k - 1)

\* The header and all QDCount questions of the packet decode.
AllQuestionsDecode(bytes) ==
    /\ HeaderDecodes(bytes)
    /\ Len(QuestionChain(bytes, HeaderLength, Uint16(bytes, 4))) = Uint16(bytes, 4)

\* C19: when the header or one of the QDCount questions fails to decode,
\* Resolve returns an error and no bytes; whenever it returns an error it
\* returns no bytes; and a response is built from exactly the QDCount
\* questions decoded in a row, whose count it carries.
C19_ResolveAllOrNothing ==
    resolved # << >> =>
        /\ ~AllQuestionsDecode(query) => resolved[1].err # ""
        /\ resolved[1].err # "" => resolved[1].resp = << >>
        /\ resolved[1].err = "" =>
              /\ AllQuestionsDecode(query)
              /\ ParseQuery(query).questions =
                     QuestionChain(query, HeaderLength, Uint16(query, 4))
              /\ Len(resolved[1].resp) >= HeaderLength
              /\ Uint16(resolved[1].resp, 4) = Uint16(query, 4)

\* Resolve returned an error and no bytes for a query whose first question
\* decodes and whose second does not.
C19_Witness ==
    /\ resolved # << >>
    /\ resolved[1].err # ""
    /\ resolved[1].resp = << >>
    /\ HeaderDecodes(query)
    /\ Uint16(query, 4) = 2
    /\ Len(QuestionChain(query, HeaderLength, 2)) = 1

\* C20: for a well-formed query none of whose questions is in the cache,
\* Resolve returns without error a response with ANCount 0, RCODE 3 and
\* the QDCount of the query, whatever the flags of the query.
C20_MissGetsNXDomain ==
    (resolved # << >> /\ WellFormedMiss(query)) =>
        /\ resolved[1].err = ""
        /\ Len(resolved[1].resp) >= HeaderLength
        /\ Uint16(resolved[1].resp, 6) = 0
        /\ RCode(resolved[1].resp) = NXDomain
        /\ Uint16(resolved[1].resp, 4) = Uint16(query, 4)

\* ------------------------------------------------------------------------
\* Properties of the cache under its lock and its updater
\* ------------------------------------------------------------------------

\* The goroutines inside the exclusive and the shared section of c.mu.
Writers ==
    {c \in Clients : cl[c].pc \in {"storeValue", "storeTTL"}} \cup
    (IF upd.pc = "store" THEN {"updater"} ELSE {})

Readers == {c \in Clients : cl[c].pc = "reading"}

\* C11: when loadFromFile returns an error, at start-up or on a tick, the
\* step leaves the map as it was and takes the updater to its select; the
\* map only ever changes in a Set or in the Update of a load without error.
C11_FailedRefreshKeepsCache ==
    [][ /\ (upd.pc = "loading" /\ upd' # upd /\ upd'.load.err # "") =>
              /\ data' = data
              /\ dataNil' = dataNil
              /\ upd'.pc = "select"
        /\ (data' # data \/ dataNil' # dataNil) =>
              \/ \E c \in Clients : cl[c].pc \in {"storeValue", "storeTTL"}
              \/ upd.pc = "store" /\ upd.load.err = "" ]_vars

\* A refresh on a tick failed after the start-up refresh had loaded a
\* record: the record is still there and the updater waits at its select.
C11_Witness ==
    /\ upd.load.err # ""
    /\ upd.last = "error"
    /\ upd.pc = "select"
    /\ ticker.fired = 1
    /\ ~ticker.pending
    /\ data # << >>

\* C12: no Get, Set or Update panics; at most one writer is inside the
\* lock and no reader with it; and what a Get returned is a miss or a
\* record stored whole under its key by a Set or an Update.
C12_CallsAreAtomic ==
    /\ panic # "assignment to entry in nil map"
    /\ Cardinality(Writers) <= 1
    /\ Writers # {} => Readers = {}
    /\ \A c \in Clients :
          \/ cl[c].result = << >>
          \/ << formatKey(cl[c].pair[1], cl[c].pair[2]), cl[c].result[1] >> \in written

\* A Get waits for the lock while a Set of the same pair, by the other
\* caller, has stored half of its record over one stored before.
C12_Witness ==
    /\ cl["c1"].pc = "rlock"
    /\ cl["c2"].pc = "storeTTL"
    /\ cl["c1"].pair = cl["c2"].pair
    /\ MapGet(data, cl["c2"].pair[1], cl["c2"].pair[2]) # << >>
    /\ << formatKey(cl["c2"].pair[1], cl["c2"].pair[2]),
          MapGet(data, cl["c2"].pair[1], cl["c2"].pair[2])[1] >> \notin written
    /\ written # {}

\* C14: while loadFromFile runs the updater holds no lock, a query task
\* holds none while it writes to the socket, and a Get waiting during a
\* reload with no Set inside can take its read lock.
C14_NoLockAcrossIO ==
    /\ upd.pc = "loading" => mu.writer # "updater"
    /\ \A c \in Clients : cl[c].pc = "write" => (c \notin mu.readers /\ mu.writer # c)
    /\ \A c \in Clients :
          (upd.pc = "loading" /\ cl[c].pc = "rlock" /\ Writers = {}) => canRLock(mu)

\* During a reload one caller is inside Get and a query task, its Get
\* done, is writing to the socket.
C14_Witness ==
    /\ upd.pc = "loading"
    /\ ~upd.startup
    /\ \E c \in Clients : cl[c].pc = "reading"
    /\ \E c \in Clients : cl[c].pc = "write"

\* C16: one Stop does not panic, a Stop changes neither the map nor the
\* lock, and after one Stop the updater exits (unless a second Stop ends
\* the process first).
C16_StopEndsUpdater ==
    /\ [](stops = 1 => panic = "")
    /\ [][ stops' # stops => (data' = data /\ dataNil' = dataNil /\ mu' = mu /\ cl' = cl) ]_vars
    /\ (stops = 1) ~> (upd.pc = "exited" \/ stops > 1)

\* After one Stop the updater has exited, the record loaded before is
\* still in the map and a Get is inside its read lock.
C16_Witness ==
    /\ stops = 1
    /\ panic = ""
    /\ upd.pc = "exited"
    /\ data # << >>
    /\ \E c \in Clients : cl[c].pc = "reading"

\* ------------------------------------------------------------------------
\* Properties of the records Get hands out
\* ------------------------------------------------------------------------

\* C13: a step that is not a Set (the caller writing into the record a Get
\* returned, or into a []byte it passed to Set) leaves what Get returns
\* for every pair as it was.
C13_GetReturnsSnapshot ==
    [][ data' = data => \A p \in SlicePairs : Lookup(p)' = Lookup(p) ]_vars

\* ------------------------------------------------------------------------
\* Properties of the response builder and of the header codec
\* ------------------------------------------------------------------------

\* The flag word of a response.
ResponseFlags(resp) == Uint16(resp, 2)

\* C21: every response Resolve returns has the QR bit (0x8000) set and the
\* RA bit (0x0080) clear.
C21_QRSetRAClear ==
    (resolved # << >> /\ resolved[1].err = "") =>
        /\ BitAnd(ResponseFlags(resolved[1].resp), 32768) = 32768
        /\ BitAnd(ResponseFlags(resolved[1].resp), 128) = 0

\* The offset after k question sections decoded in a row from offset; one
\* past the end of the bytes when a section does not decode.
RECURSIVE QuestionsEnd(_, _, _)
QuestionsEnd(bytes, offset, k) ==
    IF k = 0 THEN offset
    ELSE IF ParseQuestion(bytes, offset).err # "" THEN Len(bytes) + 1
    ELSE QuestionsEnd(bytes, ParseQuestion(bytes, offset).next, k - 1)

\* The offset at which the answer section of a response begins.
AnswersStart(resp) == QuestionsEnd(resp, HeaderLength, Uint16(resp, 4))

RECURSIVE AnswerChain(_, _)

\* A resource record whose name, dn, has been decoded and whose RDLENGTH
\* has been read; offset is where the record begins.
answerData(resp, offset, dn, rdLength) ==
    IF dn.next + 10 + rdLength > Len(resp) THEN << [Ok |-> FALSE] >>
    ELSE << [Ok       |-> TRUE,
             At       |-> offset,
             Name     |-> dn.name,
             NameEnd  |-> dn.next,
             Type     |-> Uint16(resp, dn.next),
             Class    |-> Uint16(resp, dn.next + 2),
             TTL      |-> << Uint16(resp, dn.next + 4), Uint16(resp, dn.next + 6) >>,
             RDLength |-> rdLength,
             RData    |-> SubSeq(resp, dn.next + 11, dn.next + 10 + rdLength)] >>
         \o AnswerChain(resp, dn.next + 10 + rdLength)

answerRecord(resp, offset, dn) ==
    IF dn.err # "" \/ dn.next + 10 > Len(resp) THEN << [Ok |-> FALSE] >>
    ELSE answerData(resp, offset, dn, Uint16(resp, dn.next + 8))

\* The resource records that fill the bytes of resp from offset to the
\* end: name, type, class, TTL, RDLENGTH and RDATA each; not Ok where
\* the bytes left are not a record.
AnswerChain(resp, offset) ==
    IF offset >= Len(resp) THEN << >>
    ELSE answerRecord(resp, offset, decodeDomainName(resp, offset))

\* The questions found in the cache map m, in order.
RECURSIVE HitQuestions(_, _)
HitQuestions(questions, m) ==
    IF questions = << >> THEN << >>
    ELSE (IF MapGet(m, Head(questions).DomainName, Head(questions).QType) # << >>
          THEN << Head(questions) >> ELSE << >>)
         \o HitQuestions(Tail(questions), m)

HasRootName(questions) == \E k \in 1..Len(questions) : questions[k].DomainName = << >>

\* The records are the answers to the hits, one each and in order.
AnswersMatch(answers, hits) ==
    /\ Len(answers) = Len(hits)
    /\ \A k \in 1..Len(answers) :
          /\ answers[k].Ok
          /\ answers[k].Name = hits[k].DomainName
          /\ answers[k].Type = hits[k].QType
          /\ answers[k].Class = hits[k].QClass

\* C22: in every response ANCount is the number of questions found in the
\* cache, NSCount and ARCount are 0, and the bytes after the question
\* sections are exactly one resource record per hit, in question order (the
\* records are read back for queries without the root name).
C22_ANCountIsHits ==
    (resolved # << >> /\ resolved[1].err = "") =>
        /\ Uint16(resolved[1].resp, 6) = Len(HitQuestions(ParseQuery(query).questions, data))
        /\ Uint16(resolved[1].resp, 8) = 0
        /\ Uint16(resolved[1].resp, 10) = 0
        /\ ~HasRootName(ParseQuery(query).questions) =>
              /\ AnswersStart(resolved[1].resp) <= Len(resolved[1].resp)
              /\ AnswersMatch(AnswerChain(resolved[1].resp, AnswersStart(resolved[1].resp)),
                              HitQuestions(ParseQuery(query).questions, data))

\* A query of three questions with counts 1, 2, 3 in its header, the first
\* a miss and the others hits, got a response with ANCount 2.
C22_Witness ==
    /\ resolved # << >>
    /\ resolved[1].err = ""
    /\ Uint16(query, 4) = 3
    /\ Uint16(query, 6) = 1
    /\ Uint16(query, 8) = 2
    /\ Len(HitQuestions(ParseQuery(query).questions, data)) = 2
    /\ MapGet(data, ParseQuery(query).questions[1].DomainName,
              ParseQuery(query).questions[1].QType) = << >>
    /\ Uint16(resolved[1].resp, 6) = 2

\* The query of TestResolverResolveValidQuery: example.com, A, IN.
ExampleQuery ==
    << 18, 52, 1, 0, 0, 1, 0, 0, 0, 0, 0, 0 >> \o WireExample \o << 0, 1, 0, 1 >>

\* The resource record carries the value of the cache record: raw for
\* every type but TXT, behind one length byte for TXT.
AnswerCarries(answer, value) ==
    IF answer.Type = TXTType
    THEN /\ answer.RDLength = Len(value) + 1
         /\ answer.RData = << Len(value) >> \o value
    ELSE /\ answer.RDLength = Len(value)
         /\ answer.RData = value

AnswersCarry(answers, m) ==
    \A k \in 1..Len(answers) :
        /\ answers[k].Ok
        /\ MapGet(m, answers[k].Name, answers[k].Type) # << >>
        /\ AnswerCarries(answers[k], MapGet(m, answers[k].Name, answers[k].Type)[1].Value)

\* The response has one answer, with the given RDATA.
OneAnswerWith(resp, answers, rdata) ==
    /\ Uint16(resp, 6) = 1
    /\ Len(answers) = 1
    /\ answers[1].Ok
    /\ answers[1].RData = rdata

\* C23: every answer of a response carries the value cached for its name
\* and type, raw with RDLENGTH its length, or for TXT behind one length
\* byte with RDLENGTH one more; and the example.com query against the cache
\* of the test resolves to one answer with RDATA 7F 00 00 01.
C23_AnswerCarriesValue ==
    (resolved # << >> /\ resolved[1].err = "" /\ ~HasRootName(ParseQuery(query).questions)) =>
        /\ AnswersCarry(AnswerChain(resolved[1].resp, AnswersStart(resolved[1].resp)), data)
        /\ (query = ExampleQuery /\ data = CacheOfTests) =>
              OneAnswerWith(resolved[1].resp,
                            AnswerChain(resolved[1].resp, AnswersStart(resolved[1].resp)),
                            << 127, 0, 0, 1 >>)

\* A response with a TXT answer, of RDLENGTH 2 for a text of one byte,
\* followed by an A answer of RDLENGTH 4.
C23_Witness ==
    /\ resolved # << >>
    /\ resolved[1].err = ""
    /\ data = CacheOfTests
    /\ Uint16(resolved[1].resp, 6) = 2
    /\ Len(AnswerChain(resolved[1].resp, AnswersStart(resolved[1].resp))) = 2
    /\ AnswerChain(resolved[1].resp, AnswersStart(resolved[1].resp))[1].Type = TXTType
    /\ AnswerChain(resolved[1].resp, AnswersStart(resolved[1].resp))[1].RData = << 1, 116 >>
    /\ AnswerChain(resolved[1].resp, AnswersStart(resolved[1].resp))[2].RDLength = 4

\* The names of k question sections decoded in a row from offset, each
\* with the offsets at which its wire form begins and ends.
RECURSIVE QuestionNames(_, _, _)
QuestionNames(bytes, offset, k) ==
    IF k = 0 \/ ParseQuestion(bytes, offset).err # "" THEN << >>
    ELSE << [Name    |-> ParseQuestion(bytes, offset).question.DomainName,
             At      |-> offset,
             NameEnd |-> ParseQuestion(bytes, offset).next - 4] >>
         \o QuestionNames(bytes, ParseQuestion(bytes, offset).next, k - 1)

\* The names of the resource records, with the same offsets.
AnswerNames(answers) ==
    [k \in 1..Len(answers) |->
        IF answers[k].Ok
        THEN [Name |-> answers[k].Name, At |-> answers[k].At, NameEnd |-> answers[k].NameEnd]
        ELSE [Name |-> << >>, At |-> 0, NameEnd |-> 0]]

\* Every name of a response in the order written: questions, then answers.
NamesWritten(resp) ==
    QuestionNames(resp, HeaderLength, Uint16(resp, 4))
        \o AnswerNames(AnswerChain(resp, AnswersStart(resp)))

\* The first occurrence of a name is written as labels, every later one as
\* the two bytes 0xC000 | offset of the first.
CompressedAfterFirst(resp, names) ==
    \A j \in 1..Len(names) :
        IF \E i \in 1..(j - 1) : names[i].Name = names[j].Name
        THEN \E i \in 1..(j - 1) :
                /\ names[i].Name = names[j].Name
                /\ \A h \in 1..(i - 1) : names[h].Name # names[j].Name
                /\ SubSeq(resp, names[j].At + 1, names[j].NameEnd)
                       = PutUint16(49152 + names[i].At)
        ELSE /\ BitAnd(At(resp, names[j].At), 192) # 192
             /\ At(resp, names[j].NameEnd - 1) = 0

\* BuildDNSResponse is given the name of some question twice: in two
\* questions, or in a question and its answer.
WritesNameTwice(questions, m) ==
    \/ HitQuestions(questions, m) # << >>
    \/ \E i, j \in 1..Len(questions) : i < j /\ questions[i].DomainName = questions[j].DomainName

\* C24: when a response has the same name written more than once, decoding
\* its question sections with ParseQuestion gives the questions of the
\* query, its answers bear the names of the hits, and each such name is
\* labels the first time and the 2-byte pointer to that first occurrence
\* every later time.
C24_CompressionRoundTrips ==
    (/\ resolved # << >>
     /\ resolved[1].err = ""
     /\ WritesNameTwice(ParseQuery(query).questions, data)) =>
        /\ QuestionChain(resolved[1].resp, HeaderLength, Uint16(query, 4))
               = ParseQuery(query).questions
        /\ AnswersMatch(AnswerChain(resolved[1].resp, AnswersStart(resolved[1].resp)),
                        HitQuestions(ParseQuery(query).questions, data))
        /\ CompressedAfterFirst(resolved[1].resp, NamesWritten(resolved[1].resp))

\* ------------------------------------------------------------------------
\* Properties of the header codec
\* ------------------------------------------------------------------------

\* The opcode of a flag word: bits 11 to 14.
Opcode(flags) == (flags \div 2048) % 16

\* The fields of the header pass the validation of the parser.
HeaderValid(h) == h.QDCount \in 1..9 /\ Opcode(h.Flags) <= 2

\* C25: the 12 bytes written for a header decode, without validation, to
\* the same six fields, and with validation to the same six fields
\* whenever the fields pass it.
C25_HeaderRoundTrip ==
    (hdr # << >> /\ parsed # << >>) =>
        /\ Len(wire) = HeaderLength
        /\ parsed[1].plain.err = ""
        /\ parsed[1].plain.header = hdr[1]
        /\ HeaderValid(hdr[1]) =>
              /\ parsed[1].validated.err = ""
              /\ parsed[1].validated.header = hdr[1]

\* A header with a different value in every field, valid, written and
\* parsed back.
C25_Witness ==
    /\ hdr # << >>
    /\ parsed # << >>
    /\ hdr[1] = [TransactionID |-> 4660, Flags |-> 4096, QDCount |-> 9,
                 ANCount |-> 2, NSCount |-> 258, ARCount |-> 1]
    /\ parsed[1].validated.err = ""
    /\ wire = << 18, 52, 16, 0, 0, 9, 0, 2, 1, 2, 0, 1 >>

\* What the claim says of a packet: it is refused when it is shorter than
\* 12 bytes, or its QDCount is 0 or is 10 or more, or its opcode exceeds 2.
MustReject(bytes) ==
    \/ Len(bytes) < 12
    \/ bytes[5] * 256 + bytes[6] = 0
    \/ bytes[5] * 256 + bytes[6] >= 10
    \/ Opcode(bytes[3] * 256 + bytes[4]) > 2

\* C26: the validating parser returns an error and no header exactly for
\* the packets the claim lists, and for every other packet the header of
\* its first 12 bytes, so the QDCount of an accepted header is 1 to 9.
C26_HeaderValidation ==
    parsed # << >> =>
        /\ MustReject(wire) => (parsed[1].validated.err # ""
                                /\ parsed[1].validated.header = NoHeader)
        /\ ~MustReject(wire) =>
              /\ parsed[1].validated.err = ""
              /\ parsed[1].validated.header = parsed[1].plain.header
              /\ parsed[1].validated.header.QDCount \in 1..9

\* Packets with QDCount 9 and opcode 2 were accepted, and the same packets
\* with QDCount 10 or opcode 3 refused.
C26_Witness ==
    /\ parsed # << >>
    /\ hdr = << >>
    /\ Len(wire) > HeaderLength
    /\ Uint16(wire, 4) = 9
    /\ Opcode(Uint16(wire, 2)) = 2
    /\ Uint16(wire, 2) # 4096
    /\ parsed[1].validated.err = ""

\* ------------------------------------------------------------------------
\* Properties of ParseQuestion
\* ------------------------------------------------------------------------

\* The 16-bit value at byte offset off of the packet.
WordAt(bytes, off) == bytes[off + 1] * 256 + bytes[off + 2]

\* What the claim says of a call whose name ends at offset nameEnd: with
\* fewer than 4 bytes left it returns an error, and a question is returned
\* only with the type and class of the packet, out of the two sets.
TypeAndClassChecked(bytes, nameEnd, result) ==
    /\ nameEnd + 4 > Len(bytes) => result.err # ""
    /\ result.err = "" =>
          /\ WordAt(bytes, nameEnd) \in {1, 2, 5, 6, 15, 16, 28}
          /\ WordAt(bytes, nameEnd + 2) \in {1, 3, 4}
          /\ result.question.QType = WordAt(bytes, nameEnd)
          /\ result.question.QClass = WordAt(bytes, nameEnd + 2)
          /\ result.next = nameEnd + 4
    /\ (/\ nameEnd + 4 <= Len(bytes)
        /\ \/ WordAt(bytes, nameEnd) \notin {1, 2, 5, 6, 15, 16, 28}
           \/ WordAt(bytes, nameEnd + 2) \notin {1, 3, 4}) => result.err # ""
    /\ result.err # "" => (result.question = NoQuestion /\ result.next = 0)

\* C27: ParseQuestion returns a question only with a QType of
\* {1, 2, 5, 6, 15, 16, 28} and a QClass of {1, 3, 4}; for any other type or
\* class, and with fewer than 4 bytes after the name, it returns an error
\* and no question.
C27_TypeAndClassValidated ==
    (dec.pc = "done" /\ decodeDomainName(query, start).err = "") =>
        TypeAndClassChecked(query, decodeDomainName(query, start).next, dec.result)

\* A question of type 28 and class 2 was refused for its class.
C27_Witness ==
    /\ dec.pc = "done"
    /\ query = << 1, 99, 0, 0, 28, 0, 2 >>
    /\ start = 0
    /\ dec.result.err = "invalid QClass"

\* The offset just past the wire form of the name that begins at offset,
\* pointers not followed: past its terminator, or past the two bytes of
\* the first pointer met.
RECURSIVE WireNameEnd(_, _)
WireNameEnd(bytes, offset) ==
    IF offset >= Len(bytes) THEN offset
    ELSE IF bytes[offset + 1] = 0 THEN offset + 1
    ELSE IF bytes[offset + 1] >= 192 THEN offset + 2
    ELSE WireNameEnd(bytes, offset + 1 + bytes[offset + 1])

\* The name that begins at offset runs into a pointer.
RECURSIVE HasPointer(_, _)
HasPointer(bytes, offset) ==
    /\ offset < Len(bytes)
    /\ bytes[offset + 1] # 0
    /\ \/ bytes[offset + 1] >= 192
       \/ HasPointer(bytes, offset + 1 + bytes[offset + 1])

\* The offset of question k of a packet whose questions follow each other.
RECURSIVE QuestionAt(_, _)
QuestionAt(bytes, k) ==
    IF k = 1 THEN HeaderLength ELSE WireNameEnd(bytes, QuestionAt(bytes, k - 1)) + 4

\* C28: once the decoder has jumped, the offset it will return is the one
\* after the two bytes of the first pointer of the name, whatever it meets
\* later; ParseQuestion returns that offset plus 4; and ParseQuery decodes
\* each question from where the one before it ended.
C28_OffsetAfterFirstPointer ==
    /\ dec.jumped => (HasPointer(query, start)
                      /\ dec.returnOffset = WireNameEnd(query, start))
    /\ (dec.pc = "done" /\ dec.result.err = "") =>
          dec.result.next = WireNameEnd(query, start) + 4
    /\ (resolved # << >> /\ resolved[1].err = "") =>
          \A k \in 1..Uint16(query, 4) :
              /\ ParseQuestion(query, QuestionAt(query, k)).err = ""
              /\ ParseQuery(query).questions[k]
                     = ParseQuestion(query, QuestionAt(query, k)).question

\* The name at offset 0 was decoded through two pointers, the first at
\* offset 2, and the question ends at offset 8.
C28_Witness ==
    /\ query = PacketLabelsAndPointers
    /\ start = 0
    /\ dec.pc = "done"
    /\ dec.result.err = ""
    /\ dec.result.next = 8
    /\ Cardinality(dec.visited) = 6

\* The labels of the name that begins at offset, pointers followed; fuel
\* bounds the labels and jumps taken.
RECURSIVE LabelsFrom(_, _, _)
LabelsFrom(bytes, offset, fuel) ==
    IF fuel = 0 \/ offset >= Len(bytes) \/ bytes[offset + 1] = 0 THEN << >>
    ELSE IF bytes[offset + 1] >= 192
    THEN IF offset + 1 >= Len(bytes) THEN << >>
         ELSE LabelsFrom(bytes, (bytes[offset + 1] % 64) * 256 + bytes[offset + 2], fuel - 1)
    ELSE << SubSeq(bytes, offset + 2, offset + 1 + bytes[offset + 1]) >>
             \o LabelsFrom(bytes, offset + 1 + bytes[offset + 1], fuel - 1)

\* The labels joined by single '.' separators.
RECURSIVE JoinDots(_)
JoinDots(labels) ==
    IF labels = << >> THEN << >>
    ELSE IF Len(labels) = 1 THEN labels[1]
    ELSE labels[1] \o << 46 >> \o JoinDots(Tail(labels))

\* C29: the name of a question ParseQuestion returns is the labels of the
\* wire name, those behind compression pointers included, joined by
\* single '.' separators.
C29_NameJoinsAllLabels ==
    (dec.pc = "done" /\ dec.result.err = "") =>
        dec.result.question.DomainName = JoinDots(LabelsFrom(query, start, Len(query)))


\* Some label length byte of the wire name at offset, pointers followed,
\* is one of 64 to 191.
RECURSIVE HasLongLabel(_, _, _)
HasLongLabel(bytes, offset, fuel) ==
    IF fuel = 0 \/ offset >= Len(bytes) \/ bytes[offset + 1] = 0 THEN FALSE
    ELSE IF bytes[offset + 1] >= 192
    THEN offset + 1 < Len(bytes)
         /\ HasLongLabel(bytes, (bytes[offset + 1] % 64) * 256 + bytes[offset + 2], fuel - 1)
    ELSE bytes[offset + 1] > 63
         \/ HasLongLabel(bytes, offset + 1 + bytes[offset + 1], fuel - 1)

\* C30: decoding a name with a label length byte of 64 to 191 fails with
\* an error: ParseQuestion returns no question with a label longer than
\* 63 bytes.
C30_LongLabelRejected ==
    (dec.pc = "done" /\ HasLongLabel(query, start, Len(query))) => dec.result.err # ""


\* C31: decoding a name of more than 255 bytes fails with an error:
\* ParseQuestion returns no question whose name is longer than 255 bytes,
\* whether the name is spelled out in labels or continued by a pointer.
C31_LongNameRejected ==
    (dec.pc = "done" /\ dec.result.err = "") =>
        Len(dec.result.question.DomainName) <= 255


\* ------------------------------------------------------------------------
\* Properties of the response builder: root name, TTL, header, failures
\* ------------------------------------------------------------------------

\* The first question of the query is for the root name.
RootQuestionFirst(bytes) ==
    /\ ParseQuery(bytes).questions # << >>
    /\ ParseQuery(bytes).questions[1].DomainName = << >>

\* The wire form of a question for the root name.
RootQuestionBytes(q) == << 0 >> \o PutUint16(q.QType) \o PutUint16(q.QClass)

\* C32: a question for the root name is written to the response as one
\* 0x00 byte followed by QTYPE and QCLASS, and decoding the question
\* sections of the response gives the questions of the query.
C32_RootQuestionMirrored ==
    (/\ resolved # << >>
     /\ resolved[1].err = ""
     /\ RootQuestionFirst(query)) =>
        /\ Slice(resolved[1].resp, HeaderLength, HeaderLength + 5)
               = RootQuestionBytes(ParseQuery(query).questions[1])
        /\ QuestionChain(resolved[1].resp, HeaderLength, Uint16(query, 4))
               = ParseQuery(query).questions


\* The 32-bit value s as its two 16-bit halves.
Uint32Halves(s) == << (s \div 65536) % 65536, s % 65536 >>

\* The TTL field of the answer is the whole seconds of the record's TTL,
\* for a record whose TTL is a whole number of seconds below 2^32.
TTLInSeconds(answer, record) ==
    (record.TTL.nanos = 0 /\ record.TTL.secs \div 65536 < 65536) =>
        answer.TTL = Uint32Halves(record.TTL.secs)

\* C33: the TTL field of every answer holds the TTL of the cached record
\* in whole seconds: a record stored with s seconds is answered with s.
C33_TTLInSeconds ==
    (resolved # << >> /\ resolved[1].err = "" /\ ~HasRootName(ParseQuery(query).questions)) =>
        \A k \in 1..Len(AnswerChain(resolved[1].resp, AnswersStart(resolved[1].resp))) :
            /\ AnswerChain(resolved[1].resp, AnswersStart(resolved[1].resp))[k].Ok
            /\ TTLInSeconds(AnswerChain(resolved[1].resp, AnswersStart(resolved[1].resp))[k],
                            MapGet(data,
                                   AnswerChain(resolved[1].resp, AnswersStart(resolved[1].resp))[k].Name,
                                   AnswerChain(resolved[1].resp, AnswersStart(resolved[1].resp))[k].Type)[1])


\* The fields BuildDNSResponse works on.
WorkingFields(h) == << h.Flags, h.ANCount, h.NSCount, h.ARCount >>

\* C34: after a call of BuildDNSResponse, successful or failed, the header
\* the caller passed in has the Flags, ANCount, NSCount and ARCount it had
\* before the call.
C34_CallerHeaderUnchanged ==
    built # << >> => WorkingFields(built[1].out.header) = WorkingFields(built[1].before)


\* Some question is a TXT hit on a value of more than 255 bytes.
TXTTooLongHit(questions, m) ==
    \E i \in 1..Len(questions) :
        /\ questions[i].QType = TXTType
        /\ MapGet(m, questions[i].DomainName, questions[i].QType) # << >>
        /\ Len(MapGet(m, questions[i].DomainName, questions[i].QType)[1].Value) > 255

\* bytes is a whole response to the questions: a header, the questions,
\* and one resource record per hit up to the last byte.
CompleteResponse(bytes, questions, m) ==
    /\ Len(bytes) >= HeaderLength
    /\ QuestionChain(bytes, HeaderLength, Len(questions)) = questions
    /\ AnswersMatch(AnswerChain(bytes, QuestionsEnd(bytes, HeaderLength, Len(questions))),
                    HitQuestions(questions, m))

\* C35: BuildDNSResponse returns an error and no bytes when the list of
\* questions is empty and when a TXT hit has a value of more than 255
\* bytes; whenever it returns an error it returns no bytes, and otherwise
\* the bytes are a complete response.  Resolve fails likewise on a TXT hit
\* that is too long.
C35_BuildAllOrNothing ==
    /\ built # << >> =>
          /\ (built[1].questions = << >> \/ TXTTooLongHit(built[1].questions, data)) =>
                built[1].out.err # ""
          /\ built[1].out.err # "" => built[1].out.bytes = << >>
          /\ built[1].out.err = "" =>
                CompleteResponse(built[1].out.bytes, built[1].questions, data)
    /\ (resolved # << >> /\ TXTTooLongHit(ParseQuery(query).questions, data)) =>
          (resolved[1].err # "" /\ resolved[1].resp = << >>)

\* The call failed on a TXT value of 256 bytes after the answer to an
\* earlier question had been written, and returned no bytes.
C35_Witness ==
    /\ built # << >>
    /\ Len(built[1].questions) = 2
    /\ MapGet(data, built[1].questions[1].DomainName, built[1].questions[1].QType) # << >>
    /\ TXTTooLongHit(built[1].questions, data)
    /\ built[1].out.err = "TXT record too long"
    /\ built[1].out.bytes = << >>


\* ------------------------------------------------------------------------
\* Properties of the server and the cache: responses and refreshes
\* ------------------------------------------------------------------------

\* The response is the one to the datagram of task i: its transaction ID,
\* its questions, and the bytes Resolve builds from it.
ResponseOf(resp, i) ==
    /\ Len(resp) >= HeaderLength
    /\ Uint16(resp, 0) = Uint16(tasks[i].orig, 0)
    /\ QuestionChain(resp, HeaderLength, Uint16(resp, 4))
           = ParseQuery(tasks[i].orig).questions
    /\ resp = Resolve(tasks[i].orig, data).resp

\* C36: every response carries the transaction ID of the datagram it was
\* built from, and with several tasks in flight each response written, and
\* each one about to be written, has the transaction ID and the questions
\* of its task's own datagram and goes to that datagram's origin.
C36_ResponseMatchesDatagram ==
    /\ \A j \in 1..Len(sent) :
          /\ sent[j].task \in TaskIds
          /\ ResponseOf(sent[j].resp, sent[j].task)
          /\ sent[j].addr = tasks[sent[j].task].addr
    /\ \A i \in TaskIds : tasks[i].pc = "write" => ResponseOf(tasks[i].resp, i)

\* Two datagrams with different transaction IDs from different clients
\* were in flight together and were answered in the opposite order.
C36_Witness ==
    /\ Len(sent) = 2
    /\ sent[1].task = 2
    /\ sent[2].task = 1
    /\ sent[1].addr # sent[2].addr
    /\ Uint16(sent[1].resp, 0) # Uint16(sent[2].resp, 0)


\* C37: once Cache.Stop has returned the refresh task stores no mapping
\* into the cache: no Update of a refresh completes after stopCh is
\* closed, whether the task was idle or reloading when Stop was called.
C37_NoUpdateAfterStop ==
    [][ stopCh = "closed" => ~(upd.pc = "store" /\ upd'.pc # "store") ]_vars

====
